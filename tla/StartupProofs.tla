---------------------------- MODULE StartupProofs -----------------------------
(***************************************************************************)
(* Proofs about the stamps of a store, and about what a start runs with,   *)
(* for any invocations in any order, any number of starts, each cut short  *)
(* anywhere, and any older store.                                          *)
(***************************************************************************)
EXTENDS Startup, FiniteSetTheorems, WellFoundedInduction, TLAPS

Net(c) == NetworkOf[plan[c].host]

Building == phase \in {"identity", "open", "stamp", "refused"}

\* The chains whose directories this start has opened.
OpenedChains ==
  {o \in DOMAIN plan : phase = "serving" \/ (phase = "stamp" /\ o = Current) \/ o \notin queue}

DiskTypes ==
  /\ chainStamp \in [Dirs -> Chains \cup {Unstamped}]
  /\ identityStamp \in [Dirs -> Networks \cup {Unstamped}]
  /\ formatStamp \in [Dirs -> Nat]
  /\ made \in [Dirs -> BOOLEAN]
  /\ blocks \in [Dirs -> SUBSET (Chains \X Networks)]
  /\ usedFor \in [Dirs -> SUBSET (Chains \X Networks)]

\* The chains of a configuration have directories of their own.
Placed(chains) ==
  /\ chains # NoConfig => DOMAIN chains # {}
  /\ DOMAIN chains \subseteq Chains
  /\ \A c \in DOMAIN chains : chains[c].data_dir \in Dirs /\ chains[c].rpc_url.host \in Hosts
  /\ \A c, o \in DOMAIN chains : c # o => chains[c].data_dir # chains[o].data_dir

PlanOK ==
  /\ phase \in {"down", "resolve", "serving"} \/ Building
  /\ phase = "resolve" => Placed(cfg)
  /\ DOMAIN plan \subseteq Chains /\ queue \subseteq DOMAIN plan
  /\ \A c \in DOMAIN plan : plan[c].dir \in Dirs /\ plan[c].host \in Hosts
  /\ \A c, o \in DOMAIN plan : c # o => plan[c].dir # plan[o].dir
  /\ phase \in {"down", "resolve"} => plan = NoConfig
  /\ phase = "serving" => queue = {}
  /\ Building => queue # {}
  /\ phase # "stamp" => unsynced = {}
  /\ phase \in {"open", "stamp", "refused"} => identity = Net(Current)

\* A directory's blocks, and how far its stamps may fall short of them.
Held(d) ==
  /\ blocks[d] # {} => made[d]
  /\ \A b \in blocks[d] :
       /\ chainStamp[d] \in {Unstamped, b[1]} /\ (chainStamp[d] = Unstamped => b[1] = "c")
       /\ identityStamp[d] \in {Unstamped, b[2]} /\ (identityStamp[d] = Unstamped => formatStamp[d] = 0)
  /\ \A a, b \in blocks[d] : a = b
  /\ made[d] /\ d # relic =>
       chainStamp[d] # Unstamped /\ identityStamp[d] # Unstamped /\ formatStamp[d] # 0

\* The directories of the chains that are built are fully stamped.
Built ==
  \A c \in DOMAIN plan \ queue :
    /\ chainStamp[plan[c].dir] = c /\ identityStamp[plan[c].dir] = Net(c)
    /\ formatStamp[plan[c].dir] = FormatVersion

\* The directory being stamped: what is set, what may still be lost.
Stamping ==
  phase = "stamp" =>
    /\ missing \subseteq Stamps /\ unsynced \subseteq Stamps \ missing
    /\ chainStamp[Here] = IF "chain" \in missing THEN Unstamped ELSE Current
    /\ identityStamp[Here] = IF "identity" \in missing THEN Unstamped ELSE identity
    /\ formatStamp[Here] = IF "format" \in missing THEN 0 ELSE FormatVersion
    /\ "chain" \in missing => unsynced = {}
    /\ blocks[Here] \subseteq {<<Current, identity>>}
    /\ blocks[Here] # {} => "identity" \notin missing \cup unsynced
    /\ blocks[Here] # {} /\ "chain" \in missing \cup unsynced => Current = "c"
    /\ made[Here] /\ Here # relic => missing = {} /\ unsynced = {}

\* Where a stamp comes from: a start that opened the directory, or an older build.
Explained(d) ==
  /\ chainStamp[d] # Unstamped => \E n \in Networks : <<chainStamp[d], n>> \in usedFor[d]
  /\ identityStamp[d] # Unstamped =>
       \E c \in Chains : <<c, identityStamp[d]>> \in usedFor[d] \cup blocks[d]

\* A store of an older build, which holds blocks.
OldStore(d) == d = relic /\ \E n \in Networks : <<"c", n>> \in blocks[d]

History ==
  /\ \A d \in Dirs : (\A c \in OpenedChains : plan[c].dir # d) => Explained(d)
  /\ \A d \in Dirs :
       chainStamp[d] = Unstamped /\ (identityStamp[d] # Unstamped \/ formatStamp[d] # 0 \/ made[d])
         => OldStore(d)
  /\ phase = "stamp" /\ "chain" \in unsynced
       /\ (\/ identityStamp[Here] # Unstamped /\ "identity" \notin unsynced
           \/ formatStamp[Here] # 0 /\ "format" \notin unsynced
           \/ made[Here])
       => OldStore(Here)

SInv ==
  /\ DiskTypes
  /\ PlanOK
  /\ \A d \in Dirs : Held(d)
  /\ Built
  /\ Stamping
  /\ History
  /\ RefusedRightly

------------------------------------------------------------------------------
\* What resolve_with lets through has no two chains in one directory.
LEMMA ResolvesPlaced ==
  ASSUME NEW n \in DOMAIN Invocations
  PROVE  Placed(Resolution[n])
<1>1. Resolution[n] = resolve_with(Invocations[n])
  BY DEF Resolution
<1>2. \A c \in DOMAIN Resolution[n] :
        /\ c \in Chains /\ Resolution[n][c].data_dir \in Dirs
        /\ Resolution[n][c].rpc_url.host \in Hosts
  BY InvocationsAssumption
<1>3. /\ Resolution[n] # NoConfig => DOMAIN Resolution[n] # {}
      /\ \A c, o \in DOMAIN Resolution[n] :
           c # o => Resolution[n][c].data_dir # Resolution[n][o].data_dir
  <2> DEFINE doc == merged(Invocations[n])
             built == build(doc, Invocations[n], select_chains(Invocations[n]))
  <2>1. \/ Resolution[n] = <<>>
        \/ /\ Resolution[n] = built /\ ~Refused(doc, Invocations[n], built)
           /\ select_chains(Invocations[n]) # {}
    BY <1>1 DEF resolve_with
  <2>2. DOMAIN built = select_chains(Invocations[n])
    BY DEF build
  <2> HIDE DEF doc, built
  <2>3. CASE Resolution[n] = <<>>
    BY <2>3 DEF NoConfig
  <2>4. CASE Resolution[n] = built /\ ~Refused(doc, Invocations[n], built)
             /\ select_chains(Invocations[n]) # {}
    BY <2>2, <2>4 DEF Refused
  <2> QED
    BY <2>1, <2>3, <2>4
<1> QED
  BY <1>2, <1>3 DEF Placed

\* The chain being built is one of the plan's, in a directory of its own.
LEMMA HereIsOwn ==
  ASSUME PlanOK, Building
  PROVE  /\ Current \in queue /\ Current \in DOMAIN plan /\ Current \in Chains
         /\ Here \in Dirs /\ plan[Current].host \in Hosts /\ Net(Current) \in Networks
         /\ \A c \in DOMAIN plan : c # Current => plan[c].dir # Here
<1>1. queue # {} /\ queue \subseteq {"c", "p"}
  BY DEF PlanOK, Chains
<1>2. Current \in queue
  BY <1>1 DEF Current
<1> QED
  BY <1>2, StartupAssumption DEF PlanOK, Here, Net

------------------------------------------------------------------------------
\* The invariant holds of any store an older build may have left.
LEMMA StartupInit == Init => SInv
<1> SUFFICES ASSUME Init PROVE SInv
  OBVIOUS
<1>1. PICK r \in Relics :
        /\ relic = r.dir
        /\ identityStamp = [d \in Dirs |-> IF d = r.dir THEN r.identity ELSE Unstamped]
        /\ formatStamp = [d \in Dirs |-> IF d = r.dir THEN r.fmt ELSE 0]
        /\ made = [d \in Dirs |-> d = r.dir /\ r.blocks # {}]
        /\ blocks = [d \in Dirs |-> IF d = r.dir THEN r.blocks ELSE {}]
  BY DEF Init
<1>2. /\ r.dir \in Dirs /\ r.identity \in Networks \cup {Unstamped} /\ r.fmt \in Nat
      /\ r.identity = Unstamped => r.fmt = 0
      /\ \/ r.blocks = {} /\ r.identity = Unstamped
         \/ \E n \in Networks : r.blocks = {<<"c", n>>} /\ r.identity \in {Unstamped, n}
  BY StartupAssumption
<1>3. r.blocks \in SUBSET (Chains \X Networks)
  BY <1>2 DEF Chains
<1>4. /\ chainStamp = [d \in Dirs |-> Unstamped] /\ phase = "down" /\ plan = NoConfig /\ queue = {}
      /\ unsynced = {} /\ usedFor = [d \in Dirs |-> {}]
  BY DEF Init
<1>5. DiskTypes
  <2>1. made \in [Dirs -> BOOLEAN]
    BY <1>1
  <2>2. identityStamp \in [Dirs -> Networks \cup {Unstamped}] /\ formatStamp \in [Dirs -> Nat]
    BY <1>1, <1>2
  <2>3. /\ chainStamp \in [Dirs -> Chains \cup {Unstamped}]
        /\ blocks \in [Dirs -> SUBSET (Chains \X Networks)]
        /\ usedFor \in [Dirs -> SUBSET (Chains \X Networks)]
    BY <1>1, <1>3, <1>4
  <2> QED
    BY <2>1, <2>2, <2>3 DEF DiskTypes
<1>6. DOMAIN plan = {} /\ OpenedChains = {}
  BY <1>4 DEF NoConfig, OpenedChains
<1>7. PlanOK /\ Built /\ Stamping /\ RefusedRightly
  BY <1>4, <1>6 DEF PlanOK, Built, Stamping, Building, RefusedRightly
<1>8. ASSUME NEW d \in Dirs PROVE Held(d) /\ Explained(d)
  <2>1. CASE d # r.dir
    BY <1>1, <1>4, <2>1 DEF Held, Explained
  <2>2. CASE d = r.dir /\ r.blocks = {}
    BY <1>1, <1>2, <1>4, <2>2 DEF Held, Explained
  <2>3. CASE d = r.dir /\ r.blocks # {}
    <3>1. PICK n \in Networks : r.blocks = {<<"c", n>>} /\ r.identity \in {Unstamped, n}
      BY <1>2, <2>3
    <3>2. /\ blocks[d] = {<<"c", n>>} /\ identityStamp[d] \in {Unstamped, n} /\ chainStamp[d] = Unstamped
          /\ identityStamp[d] = Unstamped => formatStamp[d] = 0
          /\ d = relic
      BY <1>1, <1>2, <1>4, <2>3, <3>1
    <3>3. made[d]
      BY <1>1, <2>3
    <3>4. <<"c", n>>[1] = "c" /\ <<"c", n>>[2] = n
      OBVIOUS
    <3> QED
      BY <3>2, <3>3, <3>4 DEF Held, Explained, Chains
  <2> QED
    BY <2>1, <2>2, <2>3
<1>9. ASSUME NEW d \in Dirs, identityStamp[d] # Unstamped \/ formatStamp[d] # 0 \/ made[d]
      PROVE  OldStore(d)
  <2>1. d = r.dir /\ r.blocks # {}
    BY <1>1, <1>2, <1>9
  <2> QED
    BY <1>1, <1>2, <2>1 DEF OldStore
<1>10. History
  BY <1>4, <1>8, <1>9 DEF History
<1> QED
  BY <1>5, <1>7, <1>8, <1>10 DEF SInv

------------------------------------------------------------------------------
(* Steps that leave the disk alone. *)

\* Stamps that no earlier step inserted without the chain's are an older build's.
Traced ==
  \A d \in Dirs :
    chainStamp[d] = Unstamped /\ (identityStamp[d] # Unstamped \/ formatStamp[d] # 0 \/ made[d])
      => OldStore(d)

\* A disk that is left alone keeps what is said of it.
LEMMA QuietDisk ==
  ASSUME SInv, UNCHANGED <<disk, relic, usedFor>>
  PROVE  /\ UNCHANGED <<chainStamp, identityStamp, formatStamp, made, blocks>>
         /\ DiskTypes' /\ (\A d \in Dirs : Held(d))' /\ Traced'
         /\ \A d : Explained(d)' <=> Explained(d)
         /\ \A d : OldStore(d)' <=> OldStore(d)
<1>1. UNCHANGED <<chainStamp, identityStamp, formatStamp, made, blocks, relic, usedFor>>
  BY DEF disk
<1>2. DiskTypes'
  BY <1>1 DEF SInv, DiskTypes
<1>3. (\A d \in Dirs : Held(d))'
  BY <1>1 DEF SInv, Held
<1>4. \A d : (Explained(d)' <=> Explained(d)) /\ (OldStore(d)' <=> OldStore(d))
  BY <1>1 DEF Explained, OldStore
<1>5. Traced'
  BY <1>1, <1>4 DEF SInv, History, Traced
<1> QED
  BY <1>1, <1>2, <1>3, <1>4, <1>5

\* Before anything is opened.
LEMMA StartKeeps ==
  ASSUME SInv, Start \/ Resolve
  PROVE  SInv'
<1>1. UNCHANGED <<disk, relic, usedFor>>
  BY DEF Start, Resolve
<1>2. /\ UNCHANGED <<chainStamp, identityStamp, formatStamp, made, blocks>>
      /\ DiskTypes' /\ (\A d \in Dirs : Held(d))' /\ Traced'
      /\ \A d : Explained(d)' <=> Explained(d)
  BY <1>1, QuietDisk
<1>3. PlanOK /\ phase \in {"down", "resolve"} /\ plan = NoConfig /\ queue = {} /\ DOMAIN plan = {}
      /\ OpenedChains = {} /\ unsynced' = {}
  BY DEF Start, Resolve, SInv, PlanOK, NoConfig, OpenedChains
<1>4. \A d \in Dirs : Explained(d)
  BY <1>3 DEF SInv, History
<1>5. CASE Start
  <2>1. phase' = "resolve" /\ plan' = plan /\ queue' = queue /\ cfg' = Resolution[name']
        /\ name' \in DOMAIN Invocations
    BY <1>5 DEF Start
  <2>2. Placed(cfg)'
    <3>1. Placed(Resolution[name'])
      BY <2>1, ResolvesPlaced
    <3> QED
      BY <2>1, <3>1 DEF Placed
  <2>3. PlanOK'
    BY <1>3, <2>1, <2>2 DEF PlanOK, Building
  <2>4. Built' /\ Stamping' /\ RefusedRightly' /\ History'
    BY <1>2, <1>3, <1>4, <2>1 DEF Built, Stamping, RefusedRightly, History, Traced
  <2> QED
    BY <1>2, <2>3, <2>4 DEF SInv
<1>6. CASE Resolve
  <2>1. /\ phase = "resolve" /\ phase' = "identity" /\ queue' = DOMAIN cfg /\ cfg # NoConfig
        /\ plan' = [c \in DOMAIN cfg |-> [dir |-> cfg[c].data_dir, host |-> cfg[c].rpc_url.host,
                                         lost |-> cfg[c].rpc_url.lost]]
    BY <1>6 DEF Resolve
  <2>2. DOMAIN plan' = DOMAIN cfg /\ queue' = DOMAIN plan'
        /\ \A c \in DOMAIN cfg : plan'[c].dir = cfg[c].data_dir /\ plan'[c].host = cfg[c].rpc_url.host
    BY <2>1
  <2>3. PlanOK'
    BY <1>3, <2>1, <2>2 DEF PlanOK, Building, Placed
  <2>4. Built' /\ Stamping' /\ RefusedRightly' /\ History'
    BY <1>2, <1>3, <1>4, <2>1, <2>2 DEF Built, Stamping, RefusedRightly, History, Traced
  <2> QED
    BY <1>2, <2>3, <2>4 DEF SInv
<1> QED
  BY <1>5, <1>6

\* The network is learned before the directory is opened.
LEMMA IdentityKeeps ==
  ASSUME SInv, fetch_identity
  PROVE  SInv'
<1>1. UNCHANGED <<disk, relic, usedFor>> /\ UNCHANGED <<plan, queue, unsynced>>
      /\ phase = "identity" /\ phase' = "open" /\ identity' = Net(Current)
  BY DEF fetch_identity, Net
<1>2. /\ UNCHANGED <<chainStamp, identityStamp, formatStamp, made, blocks>>
      /\ DiskTypes' /\ (\A d \in Dirs : Held(d))' /\ Traced'
      /\ \A d : Explained(d)' <=> Explained(d)
  BY <1>1, QuietDisk
<1>3. Current' = Current /\ Net(Current)' = Net(Current) /\ OpenedChains' = OpenedChains
  BY <1>1 DEF Current, Net, OpenedChains
<1>4. PlanOK'
  BY <1>1, <1>3 DEF SInv, PlanOK, Building
<1>5. Built' /\ Stamping' /\ RefusedRightly'
  BY <1>1, <1>2 DEF SInv, Built, Stamping, RefusedRightly, Net
<1>6. History'
  BY <1>1, <1>2, <1>3 DEF SInv, History, Traced
<1> QED
  BY <1>2, <1>4, <1>5, <1>6 DEF SInv

\* What Compatible has looked at when the directory is opened.
LEMMA OpenKeeps ==
  ASSUME SInv, open
  PROVE  SInv'
<1>1. UNCHANGED <<disk, relic, usedFor>> /\ UNCHANGED <<plan, queue, unsynced, identity>>
      /\ phase = "open" /\ phase' = "stamp" /\ missing' = Missing /\ Compatible
  BY DEF open
<1>2. /\ UNCHANGED <<chainStamp, identityStamp, formatStamp, made, blocks>>
      /\ DiskTypes' /\ (\A d \in Dirs : Held(d))' /\ Traced'
      /\ \A d : Explained(d)' <=> Explained(d)
      /\ \A d : OldStore(d)' <=> OldStore(d)
  BY <1>1, QuietDisk
<1>3. /\ Current' = Current /\ Here' = Here /\ Net(Current)' = Net(Current)
      /\ OpenedChains \subseteq OpenedChains'
  BY <1>1 DEF Current, Here, Net, OpenedChains
<1>4. /\ Current \in Chains /\ Here \in Dirs /\ identity = Net(Current) /\ identity \in Networks
      /\ unsynced = {}
  BY <1>1, HereIsOwn DEF SInv, PlanOK, Building
<1>5. PlanOK'
  BY <1>1, <1>3 DEF SInv, PlanOK, Building
<1>6. Built' /\ RefusedRightly'
  BY <1>1, <1>2 DEF SInv, Built, RefusedRightly, Net
<1>7. Held(Here)
  BY <1>4 DEF SInv
<1>8. ASSUME NEW b \in blocks[Here] PROVE b = <<Current, identity>> /\ identityStamp[Here] = identity
                                        /\ (chainStamp[Here] = Unstamped => Current = "c")
  <2>1. b \in Chains \X Networks
    BY <1>4 DEF SInv, DiskTypes
  <2>2. made[Here] /\ populated
    BY <1>7 DEF Held, populated
  <2>3. identityStamp[Here] = identity /\ b[2] = identity
    BY <1>1, <1>4, <1>7, <2>2, StartupAssumption DEF Held, Compatible
  <2>4. b[1] = Current /\ (chainStamp[Here] = Unstamped => Current = "c")
    BY <1>1, <1>7, <2>2 DEF Held, Compatible
  <2> QED
    BY <2>1, <2>3, <2>4
<1>9. made[Here] /\ Here # relic => Missing = {}
  BY <1>7 DEF Held, Missing, Stamps
<1>10. /\ chainStamp[Here] = IF "chain" \in Missing THEN Unstamped ELSE Current
       /\ identityStamp[Here] = IF "identity" \in Missing THEN Unstamped ELSE identity
       /\ formatStamp[Here] = IF "format" \in Missing THEN 0 ELSE FormatVersion
       /\ Missing \subseteq Stamps
  BY <1>1, <1>4 DEF Missing, Compatible, Stamps
<1>11. Stamping'
  <2>1. blocks[Here] # {} => "identity" \notin Missing
    BY <1>4, <1>8, StartupAssumption DEF Missing
  <2>2. blocks[Here] # {} /\ "chain" \in Missing => Current = "c"
    BY <1>8 DEF Missing
  <2>3. blocks[Here] \subseteq {<<Current, identity>>}
    BY <1>8
  <2> HIDE DEF Missing
  <2> QED
    BY <1>1, <1>2, <1>3, <1>4, <1>9, <1>10, <2>1, <2>2, <2>3 DEF Stamping
<1>12. History'
  <2>1. (\A d \in Dirs : (\A c \in OpenedChains : plan[c].dir # d) => Explained(d))'
    BY <1>1, <1>2, <1>3 DEF SInv, History
  <2> QED
    BY <1>1, <1>2, <1>4, <2>1 DEF History, Traced
<1> QED
  BY <1>2, <1>5, <1>6, <1>11, <1>12 DEF SInv

\* The reasons RefusedRightly allows.
Grounds ==
  LET wanted == <<Current, identity>>
  IN \/ blocks[Here] \ {wanted} # {}
     \/ usedFor[Here] \ {wanted} # {}
     \/ Here = relic /\ identityStamp[Here] = Unstamped
     \/ formatStamp[Here] \notin {0, FormatVersion}

\* A refusal has a reason that an earlier start, an older build or the blocks gave.
LEMMA OpenRefusedKeeps ==
  ASSUME SInv, OpenRefused
  PROVE  SInv'
<1>1. UNCHANGED <<disk, relic, usedFor>> /\ UNCHANGED <<plan, queue, unsynced, identity>>
      /\ phase = "open" /\ phase' = "refused" /\ ~Compatible
  BY DEF OpenRefused, process
<1>2. /\ UNCHANGED <<chainStamp, identityStamp, formatStamp, made, blocks>>
      /\ DiskTypes' /\ (\A d \in Dirs : Held(d))' /\ Traced'
      /\ \A d : Explained(d)' <=> Explained(d)
  BY <1>1, QuietDisk
<1>3. Current' = Current /\ Here' = Here /\ Net(Current)' = Net(Current) /\ OpenedChains' = OpenedChains
  BY <1>1 DEF Current, Here, Net, OpenedChains
<1>4. /\ Current \in Chains /\ Here \in Dirs /\ identity \in Networks
      /\ \A c \in OpenedChains : plan[c].dir # Here
  BY <1>1, HereIsOwn DEF SInv, PlanOK, Building, OpenedChains
<1>5. PlanOK' /\ Built' /\ Stamping' /\ History'
  <2>1. PlanOK'
    BY <1>1, <1>3 DEF SInv, PlanOK, Building, Net
  <2>2. Built' /\ Stamping'
    BY <1>1, <1>2 DEF SInv, Built, Stamping, Net
  <2>3. History'
    BY <1>1, <1>2, <1>3 DEF SInv, History, Traced
  <2> QED
    BY <2>1, <2>2, <2>3
<1>6. Explained(Here) /\ Held(Here)
  BY <1>4 DEF SInv, History
<1>7. Grounds
  <2> DEFINE wanted == <<Current, identity>>
  <2>1. CASE chainStamp[Here] # Unstamped /\ chainStamp[Here] # Current
    <3>1. PICK n \in Networks : <<chainStamp[Here], n>> \in usedFor[Here]
      BY <1>6, <2>1 DEF Explained
    <3>2. <<chainStamp[Here], n>> # wanted
      BY <2>1
    <3> QED
      BY <3>1, <3>2 DEF Grounds
  <2>2. CASE chainStamp[Here] = Unstamped /\ populated /\ Current # "c"
    <3>1. PICK n \in Networks : <<"c", n>> \in blocks[Here]
      BY <1>4, <2>2 DEF SInv, History, OldStore, populated
    <3>2. <<"c", n>> # wanted
      BY <2>2
    <3> QED
      BY <3>1, <3>2 DEF Grounds
  <2>3. CASE identityStamp[Here] \notin {Unstamped, identity}
    <3>1. PICK c \in Chains : <<c, identityStamp[Here]>> \in usedFor[Here] \cup blocks[Here]
      BY <1>6, <2>3 DEF Explained
    <3>2. <<c, identityStamp[Here]>> # wanted
      BY <2>3
    <3> QED
      BY <3>1, <3>2 DEF Grounds
  <2>4. CASE formatStamp[Here] # 0 /\ formatStamp[Here] # FormatVersion
    BY <2>4 DEF Grounds
  <2>5. CASE formatStamp[Here] = 0 /\ identityStamp[Here] = Unstamped /\ made[Here]
    BY <1>6, <2>5 DEF Grounds, Held
  <2> QED
    BY <1>1, <2>1, <2>2, <2>3, <2>4, <2>5 DEF Compatible
<1>8. RefusedRightly'
  BY <1>1, <1>2, <1>3, <1>7 DEF RefusedRightly, Grounds
<1> QED
  BY <1>2, <1>5, <1>8 DEF SInv

\* The stamps are complete: the chain is built.
LEMMA PersistKeeps ==
  ASSUME SInv, persist
  PROVE  SInv'
<1>1. UNCHANGED <<disk, relic, usedFor>> /\ plan' = plan /\ queue' = queue \ {Current}
      /\ phase = "stamp" /\ missing = {} /\ unsynced' = {}
      /\ phase' = IF queue' = {} THEN "serving" ELSE "identity"
  BY DEF persist
<1>2. /\ UNCHANGED <<chainStamp, identityStamp, formatStamp, made, blocks>>
      /\ DiskTypes' /\ (\A d \in Dirs : Held(d))' /\ Traced'
      /\ \A d : Explained(d)' <=> Explained(d)
  BY <1>1, QuietDisk
<1>3. Current \in queue /\ identity = Net(Current) /\ queue \subseteq DOMAIN plan
  BY <1>1, HereIsOwn DEF SInv, PlanOK, Building
<1>4. OpenedChains \subseteq OpenedChains'
  BY <1>1, <1>3 DEF OpenedChains
<1>5. PlanOK'
  BY <1>1, <1>3 DEF SInv, PlanOK, Building
<1>6. Built'
  <2> SUFFICES ASSUME NEW c \in DOMAIN plan \ queue'
               PROVE  /\ chainStamp[plan[c].dir] = c /\ identityStamp[plan[c].dir] = Net(c)
                      /\ formatStamp[plan[c].dir] = FormatVersion
    BY <1>1, <1>2 DEF Built, Net
  <2>1. CASE c = Current
    BY <1>1, <1>3, <2>1 DEF SInv, Stamping, Here
  <2>2. CASE c # Current
    BY <1>1, <2>2 DEF SInv, Built
  <2> QED
    BY <2>1, <2>2
<1>7. Stamping' /\ RefusedRightly'
  BY <1>1 DEF Stamping, RefusedRightly
<1>8. History'
  BY <1>1, <1>2, <1>4 DEF SInv, History, Traced
<1> QED
  BY <1>2, <1>5, <1>6, <1>7, <1>8 DEF SInv

------------------------------------------------------------------------------
(* Steps that write to the disk. *)

\* A stamp goes into the directory that is being opened, the chain's first.
LEMMA InsertKeeps ==
  ASSUME SInv, insert
  PROVE  SInv'
<1>1. PICK stamp \in missing : /\ \A s \in missing : StampOrder[stamp] <= StampOrder[s]
                              /\ Inserts(stamp)
  BY DEF insert
<1>2. /\ UNCHANGED <<made, blocks, phase, plan, queue, identity, relic, usedFor>>
      /\ phase = "stamp"
  BY DEF insert
<1>3. /\ Current' = Current /\ Here' = Here /\ OpenedChains' = OpenedChains
      /\ \A c : Net(c)' = Net(c)
  BY <1>2 DEF Current, Here, OpenedChains, Net
<1>4. /\ Current \in Chains /\ Here \in Dirs /\ identity = Net(Current) /\ identity \in Networks
      /\ Current \in OpenedChains /\ Current \in queue
      /\ \A c \in DOMAIN plan : c # Current => plan[c].dir # Here
  BY <1>2, HereIsOwn DEF SInv, PlanOK, Building, OpenedChains
<1>5. /\ unsynced' = unsynced \cup {stamp} /\ missing' = missing \ {stamp}
      /\ chainStamp' = IF stamp = "chain" THEN [chainStamp EXCEPT ![Here] = Current] ELSE chainStamp
      /\ identityStamp' = IF stamp = "identity" THEN [identityStamp EXCEPT ![Here] = identity]
                          ELSE identityStamp
      /\ formatStamp' = IF stamp = "format" THEN [formatStamp EXCEPT ![Here] = FormatVersion]
                        ELSE formatStamp
  BY <1>1 DEF Inserts
<1>6. Stamping /\ DiskTypes /\ Traced
  BY DEF SInv, History, Traced
<1>7. stamp \in Stamps /\ ("chain" \in missing => stamp = "chain")
  <2>1. stamp \in Stamps
    BY <1>1, <1>2, <1>6 DEF Stamping
  <2>2. StampOrder["chain"] = 1 /\ StampOrder["identity"] = 2 /\ StampOrder["format"] = 3
    BY DEF StampOrder
  <2>3. "chain" \in missing => StampOrder[stamp] <= 1
    BY <1>1, <2>2
  <2> QED
    BY <2>1, <2>2, <2>3 DEF Stamps
<1>8. \A d \in Dirs \ {Here} :
        /\ chainStamp'[d] = chainStamp[d] /\ identityStamp'[d] = identityStamp[d]
        /\ formatStamp'[d] = formatStamp[d]
  BY <1>5, <1>6 DEF DiskTypes
<1>9. /\ chainStamp'[Here] = IF stamp = "chain" THEN Current ELSE chainStamp[Here]
      /\ identityStamp'[Here] = IF stamp = "identity" THEN identity ELSE identityStamp[Here]
      /\ formatStamp'[Here] = IF stamp = "format" THEN FormatVersion ELSE formatStamp[Here]
  BY <1>4, <1>5, <1>6 DEF DiskTypes
<1>10. DiskTypes'
  BY <1>2, <1>4, <1>5, <1>6 DEF DiskTypes, FormatVersion
<1>11. PlanOK' /\ Built' /\ RefusedRightly'
  <2>1. PlanOK'
    BY <1>2, <1>3 DEF SInv, PlanOK, Building
  <2>2. Built'
    BY <1>2, <1>3, <1>4, <1>8 DEF SInv, PlanOK, Built
  <2>3. RefusedRightly'
    BY <1>2 DEF RefusedRightly
  <2> QED
    BY <2>1, <2>2, <2>3
<1>12. Stamping'
  <2>1. /\ missing' \subseteq Stamps /\ unsynced' \subseteq Stamps \ missing'
        /\ "chain" \notin missing'
    BY <1>2, <1>5, <1>6, <1>7 DEF Stamping
  <2>2. /\ chainStamp'[Here] = IF "chain" \in missing' THEN Unstamped ELSE Current
        /\ identityStamp'[Here] = IF "identity" \in missing' THEN Unstamped ELSE identity
        /\ formatStamp'[Here] = IF "format" \in missing' THEN 0 ELSE FormatVersion
    BY <1>2, <1>5, <1>6, <1>7, <1>9 DEF Stamping
  <2>3. /\ blocks[Here] \subseteq {<<Current, identity>>}
        /\ blocks[Here] # {} => "identity" \notin missing' \cup unsynced'
        /\ blocks[Here] # {} /\ "chain" \in missing' \cup unsynced' => Current = "c"
    BY <1>2, <1>5, <1>6 DEF Stamping
  <2>4. ~(made[Here] /\ Here # relic)
    BY <1>1, <1>2, <1>6 DEF Stamping
  <2> QED
    BY <1>2, <1>3, <2>1, <2>2, <2>3, <2>4 DEF Stamping
<1>13. ASSUME NEW d \in Dirs PROVE Held(d)'
  <2>1. Held(d)
    BY DEF SInv
  <2>2. CASE d # Here
    BY <1>2, <1>8, <2>1, <2>2 DEF Held
  <2>3. CASE d = Here
    <3>1. ~(made[Here] /\ Here # relic)
      BY <1>1, <1>2, <1>6 DEF Stamping
    <3>2. ASSUME NEW b \in blocks[Here]
          PROVE  /\ b[1] = Current /\ b[2] = identity /\ identityStamp[Here] = identity
                 /\ stamp # "identity"
      BY <1>2, <1>1, <1>6 DEF Stamping
    <3>3. Current # Unstamped /\ identity # Unstamped
      BY <1>4, StartupAssumption DEF Chains, Unstamped
    <3> QED
      BY <1>2, <1>9, <2>1, <2>3, <3>1, <3>2, <3>3 DEF Held
  <2> QED
    BY <2>2, <2>3
<1>14. History'
  <2>1. ASSUME NEW d \in Dirs PROVE OldStore(d)' <=> OldStore(d)
    BY <1>2 DEF OldStore
  <2>2. ASSUME NEW d \in Dirs, \A c \in OpenedChains : plan[c].dir # d PROVE Explained(d)'
    <3>1. d # Here /\ Explained(d)
      BY <1>4, <2>2 DEF SInv, History, Here
    <3> QED
      BY <1>2, <1>8, <3>1 DEF Explained
  <2>3. Current # Unstamped
    BY <1>4 DEF Chains, Unstamped
  <2>4. chainStamp'[Here] # Unstamped
    BY <1>2, <1>6, <1>7, <1>9, <2>3 DEF Stamping
  <2>5. Traced'
    BY <1>2, <1>6, <1>8, <2>1, <2>4 DEF Traced
  <2>6. ASSUME "chain" \in unsynced',
               \/ identityStamp'[Here] # Unstamped /\ "identity" \notin unsynced'
               \/ formatStamp'[Here] # 0 /\ "format" \notin unsynced'
               \/ made[Here]
        PROVE  OldStore(Here)
    <3>1. \/ identityStamp[Here] # Unstamped /\ "identity" \notin unsynced
          \/ formatStamp[Here] # 0 /\ "format" \notin unsynced
          \/ made[Here]
      BY <1>5, <1>9, <2>6
    <3>2. CASE "chain" \in unsynced
      BY <1>2, <3>1, <3>2 DEF SInv, History
    <3>3. CASE stamp = "chain"
      BY <1>1, <1>2, <1>4, <1>6, <3>1, <3>3 DEF Stamping, Traced
    <3> QED
      BY <1>5, <2>6, <3>2, <3>3
  <2> QED
    BY <1>2, <1>3, <1>4, <2>1, <2>2, <2>5, <2>6 DEF History, Traced
<1> QED
  BY <1>10, <1>11, <1>12, <1>13, <1>14 DEF SInv

\* Ingest writes only where every stamp is set, and only what they say.
LEMMA IngestKeeps ==
  ASSUME SInv, NEW c \in Chains, CreateStore(c) \/ WriteBlock(c)
  PROVE  SInv'
<1> DEFINE dir == plan[c].dir
           own == <<c, Net(c)>>
<1>1. /\ UNCHANGED <<chainStamp, identityStamp, formatStamp, phase, plan, queue, unsynced, identity,
                     relic, usedFor>>
      /\ phase = "serving" /\ c \in DOMAIN plan
  BY DEF CreateStore, WriteBlock, process
<1>2. \/ made' = [made EXCEPT ![dir] = TRUE] /\ blocks' = blocks
      \/ made[dir] /\ made' = made /\ blocks' = [blocks EXCEPT ![dir] = @ \cup {own}]
  BY DEF CreateStore, WriteBlock, Net
<1>3. /\ dir \in Dirs /\ queue = {} /\ Net(c) \in Networks /\ own \in Chains \X Networks
      /\ chainStamp[dir] = c /\ identityStamp[dir] = Net(c) /\ formatStamp[dir] = FormatVersion
      /\ c # Unstamped /\ Net(c) # Unstamped
  <2>1. PlanOK /\ Built
    BY DEF SInv
  <2>2. dir \in Dirs /\ queue = {} /\ plan[c].host \in Hosts
    BY <1>1, <2>1 DEF PlanOK
  <2>3. Net(c) \in Networks /\ Net(c) # Unstamped
    BY <2>2, StartupAssumption DEF Net
  <2>4. c # Unstamped
    BY DEF Chains, Unstamped
  <2>5. chainStamp[dir] = c /\ identityStamp[dir] = Net(c) /\ formatStamp[dir] = FormatVersion
    BY <1>1, <2>1, <2>2 DEF Built
  <2>6. own \in Chains \X Networks
    BY <2>3
  <2> QED
    BY <2>2, <2>3, <2>4, <2>5, <2>6
<1>4. DiskTypes
  BY DEF SInv
<1> HIDE DEF dir, own
<1>5. \A d \in Dirs :
        /\ blocks'[d] \in {blocks[d], blocks[d] \cup {own}}
        /\ d # dir => blocks'[d] = blocks[d] /\ made'[d] = made[d]
        /\ blocks'[d] # blocks[d] => made'[d]
  BY <1>2, <1>3, <1>4 DEF DiskTypes
<1>6. DiskTypes'
  <2>1. made' \in [Dirs -> BOOLEAN]
    BY <1>2, <1>4 DEF DiskTypes
  <2>2. blocks' \in [Dirs -> SUBSET (Chains \X Networks)]
    BY <1>2, <1>3, <1>4 DEF DiskTypes
  <2> QED
    BY <1>1, <1>4, <2>1, <2>2 DEF DiskTypes
<1>7. \A x : Net(x)' = Net(x)
  BY <1>1 DEF Net
<1>8. PlanOK' /\ Built' /\ Stamping' /\ RefusedRightly'
  <2>1. PlanOK'
    BY <1>1 DEF SInv, PlanOK, Building
  <2>2. Built'
    BY <1>1, <1>7 DEF SInv, Built
  <2>3. Stamping' /\ RefusedRightly'
    BY <1>1 DEF Stamping, RefusedRightly
  <2> QED
    BY <2>1, <2>2, <2>3
<1>9. ASSUME NEW d \in Dirs PROVE Held(d)'
  <2>1. Held(d)
    BY DEF SInv
  <2>2. CASE d # dir
    BY <1>1, <1>5, <2>1, <2>2 DEF Held
  <2>3. CASE d = dir
    <3>1. \A b \in blocks[d] : b = own
      <4> SUFFICES ASSUME NEW b \in blocks[d] PROVE b = own
        OBVIOUS
      <4>1. b \in Chains \X Networks
        BY <1>4 DEF DiskTypes
      <4>2. b[1] = c /\ b[2] = Net(c)
        BY <1>3, <2>1, <2>3 DEF Held
      <4>3. b = <<b[1], b[2]>>
        BY <4>1
      <4> QED
        BY <4>2, <4>3 DEF own
    <3>2. \A b \in blocks'[d] : b = own
      BY <1>5, <3>1
    <3>3. own[1] = c /\ own[2] = Net(c)
      BY DEF own
    <3>4. blocks'[d] # {} => made'[d]
      <4>1. CASE blocks'[d] # blocks[d]
        BY <1>5, <4>1
      <4>2. CASE blocks'[d] = blocks[d]
        <5>1. made[d] => made'[d]
          BY <1>2, <1>4, <2>3 DEF DiskTypes
        <5> QED
          BY <2>1, <4>2, <5>1 DEF Held
      <4> QED
        BY <4>1, <4>2
    <3>5. /\ chainStamp'[d] = c /\ identityStamp'[d] = Net(c) /\ formatStamp'[d] # 0
          /\ chainStamp'[d] # Unstamped /\ identityStamp'[d] # Unstamped
      BY <1>1, <1>3, <2>3 DEF FormatVersion
    <3>6. \A b \in blocks'[d] : b[1] = c /\ b[2] = Net(c)
      BY <3>2, <3>3
    <3>7. \A a, b \in blocks'[d] : a = b
      BY <3>2
    <3> QED
      BY <3>4, <3>5, <3>6, <3>7 DEF Held
  <2> QED
    BY <2>2, <2>3
<1>10. History'
  <2>1. \A d \in Dirs : Explained(d) => Explained(d)'
    BY <1>1, <1>5 DEF Explained
  <2>2. \A d \in Dirs : OldStore(d) => OldStore(d)'
    BY <1>1, <1>5 DEF OldStore
  <2>3. OpenedChains' = OpenedChains
    BY <1>1 DEF OpenedChains, Current
  <2>4. Traced
    BY DEF SInv, History, Traced
  <2>5. Traced'
    BY <1>1, <1>3, <1>5, <2>2, <2>4 DEF Traced
  <2>6. (\A d \in Dirs : (\A x \in OpenedChains : plan[x].dir # d) => Explained(d))'
    BY <1>1, <2>1, <2>3 DEF SInv, History
  <2> QED
    BY <1>1, <2>5, <2>6 DEF History, Traced
<1> QED
  BY <1>6, <1>8, <1>9, <1>10 DEF SInv

\* A process that ends loses at most the stamps it had not synced, and those
\* from the last one back.
LEMMA EndKeeps ==
  ASSUME SInv, NEW lost \in SUBSET unsynced, Ends(lost), phase # "down",
         \A s \in lost, t \in unsynced : StampOrder[s] <= StampOrder[t] => t \in lost
  PROVE  SInv'
<1>1. /\ chainStamp' = IF "chain" \in lost THEN [chainStamp EXCEPT ![Here] = Unstamped] ELSE chainStamp
      /\ identityStamp' = IF "identity" \in lost THEN [identityStamp EXCEPT ![Here] = Unstamped]
                          ELSE identityStamp
      /\ formatStamp' = IF "format" \in lost THEN [formatStamp EXCEPT ![Here] = 0] ELSE formatStamp
      /\ usedFor' = [d \in Dirs |-> usedFor[d] \cup {t[2] : t \in {o \in Opened : o[1] = d}}]
      /\ phase' = "down" /\ plan' = NoConfig /\ queue' = {} /\ unsynced' = {}
      /\ UNCHANGED <<made, blocks, relic>>
  BY DEF Ends
<1>2. lost # {} => phase = "stamp"
  BY DEF SInv, PlanOK
<1>3. DiskTypes /\ Traced /\ PlanOK /\ Stamping /\ Built
  BY DEF SInv, History, Traced
<1>4. phase = "stamp" => /\ Current \in OpenedChains /\ Current \in Chains /\ Here \in Dirs
                         /\ Here = plan[Current].dir
                         /\ identity = Net(Current) /\ identity \in Networks
                         /\ Current # Unstamped /\ identity # Unstamped
  BY <1>3, HereIsOwn, StartupAssumption DEF PlanOK, Building, OpenedChains, Here, Chains, Unstamped
<1>5. ASSUME NEW d \in Dirs, lost = {} \/ d # Here
      PROVE  chainStamp'[d] = chainStamp[d] /\ identityStamp'[d] = identityStamp[d]
             /\ formatStamp'[d] = formatStamp[d]
  BY <1>1, <1>3, <1>5 DEF DiskTypes
<1>6. ASSUME phase = "stamp"
      PROVE  /\ chainStamp'[Here] = IF "chain" \in lost THEN Unstamped ELSE chainStamp[Here]
             /\ identityStamp'[Here] = IF "identity" \in lost THEN Unstamped ELSE identityStamp[Here]
             /\ formatStamp'[Here] = IF "format" \in lost THEN 0 ELSE formatStamp[Here]
  BY <1>1, <1>3, <1>4, <1>6 DEF DiskTypes
<1>7. ASSUME NEW c \in OpenedChains PROVE <<c, Net(c)>> \in usedFor'[plan[c].dir] /\ Net(c) \in Networks
  <2> DEFINE t == <<plan[c].dir, <<c, Net(c)>>>>
  <2>1. t \in Opened
    BY DEF Opened, OpenedChains, Net
  <2>2. c \in DOMAIN plan /\ plan[c].dir \in Dirs /\ Net(c) \in Networks
    BY <1>3, StartupAssumption DEF OpenedChains, PlanOK, Net
  <2>3. t[1] = plan[c].dir /\ t[2] = <<c, Net(c)>>
    OBVIOUS
  <2> HIDE DEF t
  <2>4. t[2] \in {u[2] : u \in {o \in Opened : o[1] = plan[c].dir}}
    BY <2>1, <2>3
  <2>5. usedFor'[plan[c].dir]
          = usedFor[plan[c].dir] \cup {u[2] : u \in {o \in Opened : o[1] = plan[c].dir}}
    BY <1>1, <2>2
  <2> QED
    BY <2>2, <2>3, <2>4, <2>5
<1>8. \A d \in Dirs : usedFor[d] \subseteq usedFor'[d]
  BY <1>1
<1>9. DiskTypes'
  <2>1. usedFor' \in [Dirs -> SUBSET (Chains \X Networks)]
    <3>1. ASSUME NEW o \in Opened PROVE o[2] \in Chains \X Networks
      <4>1. PICK c \in DOMAIN plan : o = <<plan[c].dir, <<c, NetworkOf[plan[c].host]>>>>
        BY DEF Opened
      <4>2. c \in Chains /\ plan[c].host \in Hosts
        BY <1>3 DEF PlanOK
      <4>3. NetworkOf[plan[c].host] \in Networks
        BY <4>2, StartupAssumption
      <4>4. o[2] = <<c, NetworkOf[plan[c].host]>>
        BY <4>1
      <4> QED
        BY <4>2, <4>3, <4>4
    <3> QED
      BY <1>1, <1>3, <3>1 DEF DiskTypes
  <2>2. chainStamp' \in [Dirs -> Chains \cup {Unstamped}]
        /\ identityStamp' \in [Dirs -> Networks \cup {Unstamped}] /\ formatStamp' \in [Dirs -> Nat]
    BY <1>1, <1>3 DEF DiskTypes
  <2> QED
    BY <1>1, <1>3, <2>1, <2>2 DEF DiskTypes
<1>10. /\ DOMAIN plan' = {} /\ OpenedChains' = {}
       /\ PlanOK' /\ Built' /\ Stamping' /\ RefusedRightly'
  <2>1. DOMAIN plan' = {}
    BY <1>1 DEF NoConfig
  <2>2. OpenedChains' = {}
    BY <2>1 DEF OpenedChains
  <2>3. PlanOK'
    BY <1>1, <2>1 DEF PlanOK, Building
  <2>4. Built' /\ Stamping' /\ RefusedRightly'
    BY <1>1, <2>1 DEF Built, Stamping, RefusedRightly
  <2> QED
    BY <2>1, <2>2, <2>3, <2>4
<1>11. ASSUME NEW d \in Dirs PROVE Held(d)'
  <2>1. Held(d)
    BY DEF SInv
  <2>2. CASE lost = {} \/ d # Here
    BY <1>1, <1>5, <2>1, <2>2 DEF Held
  <2>3. CASE lost # {} /\ d = Here
    <3>1. phase = "stamp" /\ ~(made[Here] /\ Here # relic)
      BY <1>2, <1>3, <2>3 DEF Stamping
    <3>2. ASSUME NEW b \in blocks[Here]
          PROVE  /\ b[1] = Current /\ b[2] = identity
                 /\ identityStamp'[Here] = identity
                 /\ chainStamp'[Here] \in {Unstamped, Current}
                 /\ chainStamp'[Here] = Unstamped => Current = "c"
      <4>1. b = <<Current, identity>>
        BY <1>3, <3>1 DEF Stamping
      <4>2. "identity" \notin lost /\ identityStamp[Here] = identity
        BY <1>3, <3>1, <3>2 DEF Stamping
      <4>3. chainStamp[Here] \in {Unstamped, Current}
            /\ (chainStamp[Here] = Unstamped \/ "chain" \in lost => Current = "c")
        BY <1>3, <1>4, <3>1, <3>2 DEF Stamping
      <4> QED
        BY <1>6, <3>1, <4>1, <4>2, <4>3
    <3> QED
      BY <1>1, <1>4, <2>1, <2>3, <3>1, <3>2 DEF Held
  <2> QED
    BY <2>2, <2>3
<1>12. ASSUME NEW d \in Dirs PROVE Explained(d)'
  <2>1. CASE \A c \in OpenedChains : plan[c].dir # d
    <3>1. lost = {} \/ d # Here
      BY <1>2, <1>4, <2>1
    <3> QED
      BY <1>1, <1>5, <1>8, <2>1, <3>1 DEF SInv, History, Explained
  <2>2. ASSUME NEW c \in OpenedChains, plan[c].dir = d PROVE Explained(d)'
    <3>1. chainStamp'[d] \in {Unstamped, c} /\ identityStamp'[d] \in {Unstamped, Net(c)}
      <4>1. CASE c \notin queue
        <5>1. lost = {} \/ d # Here
          BY <1>2, <1>3, <2>2, <4>1, HereIsOwn DEF Building, OpenedChains
        <5> QED
          BY <1>3, <1>5, <2>2, <4>1, <5>1 DEF Built, OpenedChains
      <4>2. CASE c \in queue
        <5>1. phase = "stamp" /\ c = Current
          BY <1>3, <2>2, <4>2 DEF OpenedChains, PlanOK
        <5> QED
          BY <1>3, <1>4, <1>6, <2>2, <5>1 DEF Stamping
      <4> QED
        BY <4>1, <4>2
    <3>2. c \in Chains
      BY <1>3 DEF OpenedChains, PlanOK
    <3> QED
      BY <1>7, <2>2, <3>1, <3>2 DEF Explained
  <2> QED
    BY <2>1, <2>2
<1>13. Traced'
  <2>1. \A d \in Dirs : OldStore(d)' <=> OldStore(d)
    BY <1>1 DEF OldStore
  <2> SUFFICES ASSUME NEW d \in Dirs, chainStamp'[d] = Unstamped,
                      identityStamp'[d] # Unstamped \/ formatStamp'[d] # 0 \/ made[d]
               PROVE  OldStore(d)
    BY <1>1, <2>1 DEF Traced
  <2>2. CASE lost = {} \/ d # Here
    BY <1>3, <1>5, <2>2 DEF Traced
  <2>3. CASE lost # {} /\ d = Here
    <3>1. phase = "stamp" /\ "chain" \in lost
      BY <1>2, <1>3, <1>4, <1>6, <2>3 DEF Stamping
    <3>2. unsynced \subseteq lost
      <4>1. unsynced \subseteq Stamps
        BY <1>3, <3>1, Zenon DEF Stamping
      <4>2. \A t \in Stamps : StampOrder["chain"] <= StampOrder[t]
        BY DEF Stamps, StampOrder
      <4> QED
        BY <3>1, <4>1, <4>2
    <3> QED
      BY <1>6, <2>3, <3>1, <3>2 DEF SInv, History
  <2> QED
    BY <2>2, <2>3
<1>14. History'
  BY <1>1, <1>12, <1>13 DEF History, Traced
<1> QED
  BY <1>9, <1>10, <1>11, <1>14 DEF SInv

------------------------------------------------------------------------------
\* The invariant holds throughout.
LEMMA StartupInvariant == Spec => []SInv
<1>1. Init => SInv
  BY StartupInit
<1>2. SInv /\ [Next]_vars => SInv'
  <2> SUFFICES ASSUME SInv, [Next]_vars PROVE SInv'
    OBVIOUS
  <2>1. CASE Start \/ Resolve
    BY <2>1, StartKeeps
  <2>2. CASE fetch_identity
    BY <2>2, IdentityKeeps
  <2>3. CASE open
    BY <2>3, OpenKeeps
  <2>4. CASE OpenRefused
    BY <2>4, OpenRefusedKeeps
  <2>5. CASE insert
    BY <2>5, InsertKeeps
  <2>6. CASE persist
    BY <2>6, PersistKeeps
  <2>7. CASE \E c \in Chains : CreateStore(c) \/ WriteBlock(c)
    BY <2>7, IngestKeeps
  <2>8. CASE BadConfig \/ IdentityFails \/ RefusalEnds \/ Shutdown
    <3>1. Ends({}) /\ phase # "down"
      BY <2>8 DEF BadConfig, IdentityFails, RefusalEnds, Shutdown
    <3> QED
      BY <3>1, EndKeeps
  <2>9. CASE Crash
    <3>1. PICK lost \in SUBSET unsynced :
            /\ \A s \in lost, t \in unsynced : StampOrder[s] <= StampOrder[t] => t \in lost
            /\ Ends(lost)
      BY <2>9 DEF Crash
    <3> QED
      BY <2>9, <3>1, EndKeeps DEF Crash
  <2>10. CASE UNCHANGED vars
    <3>1. UNCHANGED <<disk, phase, starts, process, relic, usedFor>>
      BY <2>10 DEF vars
    <3>2. UNCHANGED <<chainStamp, identityStamp, formatStamp, made, blocks, phase, cfg, plan, queue,
                      identity, unsynced, missing, relic, usedFor>>
      BY <3>1 DEF disk, process
    <3>3. /\ Current' = Current /\ Here' = Here /\ OpenedChains' = OpenedChains
          /\ \A c : Net(c)' = Net(c)
      BY <3>2 DEF Current, Here, OpenedChains, Net
    <3>4. DiskTypes' /\ (\A d \in Dirs : Held(d))' /\ Traced' /\ \A d : Explained(d)' <=> Explained(d)
      BY <3>1, QuietDisk
    <3>5. PlanOK' /\ Built'
      <4>1. Placed(cfg)' = Placed(cfg) /\ Building' = Building
        BY <3>2 DEF Placed, Building
      <4>2. PlanOK'
        BY <3>2, <3>3, <4>1 DEF SInv, PlanOK
      <4>3. Built'
        BY <3>2, <3>3 DEF SInv, Built
      <4> QED
        BY <4>2, <4>3
    <3>6. Stamping' /\ RefusedRightly'
      BY <3>2, <3>3 DEF SInv, Stamping, RefusedRightly
    <3>7. History'
      BY <3>2, <3>3, <3>4 DEF SInv, History, Traced, OldStore
    <3> QED
      BY <3>4, <3>5, <3>6, <3>7 DEF SInv
  <2> QED
    BY <2>1, <2>2, <2>3, <2>4, <2>5, <2>6, <2>7, <2>8, <2>9, <2>10 DEF Next
<1> QED
  BY <1>1, <1>2, PTL DEF Spec

\* The blocks of a directory are of one chain on one network, and are what the
\* stamps of verify_and_stamp_meta say: for any configurations, in any number of
\* starts, each ended anywhere.
THEOREM StoreAlwaysWhatItSays == Spec => []StoreIsWhatItSays
<1>1. SInv => StoreIsWhatItSays
  <2> SUFFICES ASSUME SInv, NEW d \in Dirs
               PROVE  /\ Cardinality(blocks[d]) <= 1
                      /\ \A b \in blocks[d] : /\ chainStamp[d] \in {Unstamped, b[1]}
                                              /\ identityStamp[d] \in {Unstamped, b[2]}
    BY DEF StoreIsWhatItSays
  <2>1. Held(d)
    BY DEF SInv
  <2>2. CASE blocks[d] = {}
    <3>1. Cardinality(blocks[d]) = 0
      BY <2>2, FS_EmptySet
    <3> QED
      BY <2>2, <3>1
  <2>3. CASE blocks[d] # {}
    <3>1. PICK b : blocks[d] = {b}
      BY <2>1, <2>3 DEF Held
    <3>2. Cardinality({b}) = 1
      BY FS_Singleton
    <3>3. Cardinality(blocks[d]) <= 1
      BY <3>1, <3>2
    <3>4. \A o \in blocks[d] : /\ chainStamp[d] \in {Unstamped, o[1]}
                              /\ identityStamp[d] \in {Unstamped, o[2]}
      BY <2>1, Zenon DEF Held
    <3> QED
      BY <3>3, <3>4
  <2> QED
    BY <2>2, <2>3
<1> QED
  BY <1>1, StartupInvariant, PTL

\* A directory that this build filled has its full set of stamps, wherever the
\* process ended: persist comes before the first block.
THEOREM AlwaysStampedBeforeBlocks == Spec => []StampedBeforeBlocks
<1>1. SInv => StampedBeforeBlocks
  BY DEF SInv, Held, StampedBeforeBlocks
<1> QED
  BY <1>1, StartupInvariant, PTL

\* A start cut short between two inserts never makes verify_and_stamp_meta refuse
\* the directory to the same configuration: what a refusal rests on was there
\* before, because the chain's stamp goes in first.
THEOREM AlwaysRefusedRightly == Spec => []RefusedRightly
<1>1. SInv => RefusedRightly
  BY DEF SInv
<1> QED
  BY <1>1, StartupInvariant, PTL

------------------------------------------------------------------------------
(* What a start runs with. *)

\* set_path: the layer's value where it has one, the document's elsewhere.
LEMMA GetSetPath ==
  ASSUME NEW doc, NEW layer, NEW path, NEW default
  PROVE  Get(set_path(doc, layer), path, default) = Get(layer, path, Get(doc, path, default))
BY DEF Get, set_path

\* The paths of a layer are pairs, of a table and a key.
Paths(layer) == \A p \in DOMAIN layer : p = <<p[1], p[2]>>

\* apply_key: a chain's own key outranks the starred one, which stands for it.
LEMMA GetOwnKey ==
  ASSUME NEW layer, NEW enabled, NEW c \in enabled, NEW key, NEW default, c # "*", Paths(layer)
  PROVE  Get(apply_key(layer, enabled), <<c, key>>, default)
           = Get(layer, <<c, key>>, Get(layer, <<"*", key>>, default))
<1> DEFINE own == <<c, key>>
           star == <<"*", key>>
           keys == {q \in DOMAIN layer : q[1] # "*"}
                     \cup {<<e, q[2]>> : e \in enabled, q \in {r \in DOMAIN layer : r[1] = "*"}}
<1>1. own[1] = c /\ own[2] = key /\ star[1] = "*" /\ star[2] = key
  OBVIOUS
<1>2. apply_key(layer, enabled)
        = [p \in keys |-> IF p \in DOMAIN layer THEN layer[p] ELSE layer[<<"*", p[2]>>]]
  BY DEF apply_key
<1>3. own \in keys <=> own \in DOMAIN layer \/ star \in DOMAIN layer
  <2>1. ASSUME own \in DOMAIN layer PROVE own \in keys
    BY <1>1, <2>1
  <2>2. ASSUME star \in DOMAIN layer PROVE own \in keys
    <3>1. star \in {r \in DOMAIN layer : r[1] = "*"} /\ own = <<c, star[2]>>
      BY <1>1, <2>2
    <3> QED
      BY <3>1
  <2>3. ASSUME own \in keys, own \notin DOMAIN layer PROVE star \in DOMAIN layer
    <3>1. PICK e \in enabled, q \in {r \in DOMAIN layer : r[1] = "*"} : own = <<e, q[2]>>
      BY <2>3
    <3>2. q = <<q[1], q[2]>> /\ q[1] = "*" /\ q[2] = key /\ q \in DOMAIN layer
      BY <3>1 DEF Paths
    <3> QED
      BY <3>2
  <2> QED
    BY <2>1, <2>2, <2>3
<1> HIDE DEF keys
<1>4. own \in keys => apply_key(layer, enabled)[own]
                       = IF own \in DOMAIN layer THEN layer[own] ELSE layer[star]
  BY <1>1, <1>2
<1>5. DOMAIN apply_key(layer, enabled) = keys
  BY <1>2
<1> HIDE DEF own, star
<1>6. Get(apply_key(layer, enabled), own, default) = Get(layer, own, Get(layer, star, default))
  BY <1>3, <1>4, <1>5 DEF Get
<1> QED
  BY <1>6 DEF own, star

\* apply_key leaves the keys of [defaults] as they are.
LEMMA GetSharedKey ==
  ASSUME NEW layer, NEW enabled, NEW key, NEW default, "defaults" \notin enabled
  PROVE  Get(apply_key(layer, enabled), <<"defaults", key>>, default)
           = Get(layer, <<"defaults", key>>, default)
<1> DEFINE all == <<"defaults", key>>
           keys == {q \in DOMAIN layer : q[1] # "*"}
                     \cup {<<e, q[2]>> : e \in enabled, q \in {r \in DOMAIN layer : r[1] = "*"}}
<1>1. all[1] = "defaults"
  OBVIOUS
<1>2. apply_key(layer, enabled)
        = [p \in keys |-> IF p \in DOMAIN layer THEN layer[p] ELSE layer[<<"*", p[2]>>]]
  BY DEF apply_key
<1>3. all \in keys <=> all \in DOMAIN layer
  BY <1>1
<1> HIDE DEF keys, all
<1>4. Get(apply_key(layer, enabled), all, default) = Get(layer, all, default)
  BY <1>2, <1>3 DEF Get
<1> QED
  BY <1>4 DEF all

\* Four layers over the file, read from the top.
LEMMA GetFourLayers ==
  ASSUME NEW doc, NEW env, NEW old, NEW flags, NEW sets, NEW path, NEW default
  PROVE  Get(set_path(set_path(set_path(set_path(doc, env), old), flags), sets), path, default)
           = Get(sets, path, Get(flags, path, Get(old, path, Get(env, path, Get(doc, path, default)))))
<1> DEFINE d1 == set_path(doc, env)
           d2 == set_path(d1, old)
           d3 == set_path(d2, flags)
<1>1. Get(d1, path, default) = Get(env, path, Get(doc, path, default))
  BY GetSetPath
<1> HIDE DEF d1
<1>2. Get(d2, path, default) = Get(old, path, Get(d1, path, default))
  BY GetSetPath
<1> HIDE DEF d2
<1>3. Get(d3, path, default) = Get(flags, path, Get(d2, path, default))
  BY GetSetPath
<1> HIDE DEF d3
<1>4. Get(set_path(d3, sets), path, default) = Get(sets, path, Get(d3, path, default))
  BY GetSetPath
<1>5. Get(set_path(d3, sets), path, default)
        = Get(sets, path, Get(flags, path, Get(old, path, Get(env, path, Get(doc, path, default)))))
  BY <1>1, <1>2, <1>3, <1>4
<1> QED
  BY <1>5 DEF d1, d2, d3

\* The merged document, read for a chain, is the layers read from the top.
LEMMA MergedIsRanked ==
  ASSUME NEW n \in DOMAIN Invocations, NEW c \in select_chains(Invocations[n]),
         select_chains(Invocations[n]) \subseteq Chains, NEW key, NEW builtin
  PROVE  overlay(merged(Invocations[n]), c, key, builtin) = Ranked(Invocations[n], c, key, builtin)
<1> DEFINE inv == Invocations[n]
           enabled == select_chains(inv)
           own == <<c, key>>
           star == <<"*", key>>
           all == <<"defaults", key>>
           file == load_tree(inv)
           old == apply_key(inv.deprecated, enabled)
           flags == apply_key(inv.flags, enabled)
           sets == SetKeys(inv)
           doc == set_path(set_path(set_path(set_path(file, inv.env), old), flags), sets)
<1>1. c # "*" /\ "defaults" \notin enabled /\ c \in enabled
  BY DEF Chains
<1>2. merged(inv) = doc
  BY DEF merged, apply_sets, apply_flags, apply_deprecated_flags, apply_env
<1>3. Paths(inv.deprecated) /\ Paths(inv.flags)
  BY LayersAssumption DEF Paths
<1> HIDE DEF inv, enabled, file, sets
<1>4. \A d : /\ Get(old, all, d) = Get(inv.deprecated, all, d)
             /\ Get(flags, all, d) = Get(inv.flags, all, d)
  BY <1>1, GetSharedKey
<1>5. ASSUME NEW d
     PROVE  Get(old, own, d) = Get(inv.deprecated, own, Get(inv.deprecated, star, d))
  BY <1>1, <1>3, GetOwnKey
<1>6. ASSUME NEW d
     PROVE  Get(flags, own, d) = Get(inv.flags, own, Get(inv.flags, star, d))
  BY <1>1, <1>3, GetOwnKey
<1>9. overlay(doc, c, key, builtin) = Get(doc, own, Get(doc, all, builtin))
  BY DEF overlay
<1>7. Ranked(inv, c, key, builtin)
        = Get(sets, own, Get(inv.flags, own, Get(inv.flags, star,
            Get(inv.deprecated, own, Get(inv.deprecated, star, Get(inv.env, own, Get(file, own,
              Get(sets, all, Get(inv.flags, all, Get(inv.deprecated, all,
                Get(inv.env, all, Get(file, all, builtin))))))))))))
  BY DEF Ranked, file, sets
<1> HIDE DEF own, star, all, old, flags
<1>10. \A path, d : Get(doc, path, d)
                      = Get(sets, path, Get(flags, path, Get(old, path,
                          Get(inv.env, path, Get(file, path, d)))))
  BY GetFourLayers
<1> HIDE DEF doc
<1> DEFINE shared == Get(doc, all, builtin)
<1>11. shared = Get(sets, all, Get(inv.flags, all, Get(inv.deprecated, all,
                  Get(inv.env, all, Get(file, all, builtin)))))
  <2>1. shared = Get(sets, all, Get(flags, all, Get(old, all,
                   Get(inv.env, all, Get(file, all, builtin)))))
    BY <1>10
  <2> HIDE DEF shared
  <2> QED
    BY <1>4, <2>1
<1> HIDE DEF shared
<1>12. Get(doc, own, shared)
         = Get(sets, own, Get(inv.flags, own, Get(inv.flags, star,
             Get(inv.deprecated, own, Get(inv.deprecated, star,
               Get(inv.env, own, Get(file, own, shared)))))))
  <2>1. Get(doc, own, shared) = Get(sets, own, Get(flags, own, Get(old, own,
                                  Get(inv.env, own, Get(file, own, shared)))))
    BY <1>10
  <2> QED
    BY <1>5, <1>6, <2>1
<1>13. overlay(doc, c, key, builtin) = Get(doc, own, shared)
  BY <1>9 DEF shared
<1>8. overlay(merged(inv), c, key, builtin) = Ranked(inv, c, key, builtin)
  BY <1>2, <1>7, <1>11, <1>12, <1>13
<1> QED
  BY <1>8 DEF inv

\* resolve_with returns what build made of the merged document, or nothing.
LEMMA ResolvedIsBuilt ==
  ASSUME NEW inv, resolve_with(inv) # <<>>
  PROVE  /\ resolve_with(inv) = build(merged(inv), inv, select_chains(inv))
         /\ deserialize_tree(merged(inv))
BY Zenon DEF resolve_with

\* The configuration a start resolves to, when it resolves.
LEMMA Resolves ==
  ASSUME NEW n \in DOMAIN Invocations, NEW c \in DOMAIN Resolution[n]
  PROVE  /\ select_chains(Invocations[n]) \subseteq Chains
         /\ DOMAIN Resolution[n] = select_chains(Invocations[n])
         /\ Resolution[n][c] = resolve_chain(c, merged(Invocations[n]), Invocations[n])
         /\ kind(merged(Invocations[n])) \in {"avalanchego", "neve"}
<1> DEFINE doc == merged(Invocations[n])
           enabled == select_chains(Invocations[n])
           built == build(doc, Invocations[n], enabled)
<1>1. Resolution[n] = built /\ deserialize_tree(doc)
  <2>1. Resolution[n] = resolve_with(Invocations[n])
    BY DEF Resolution
  <2>2. Resolution[n] # <<>>
    OBVIOUS
  <2> QED
    BY <2>1, <2>2, ResolvedIsBuilt, Zenon
<1>2. DOMAIN built = enabled /\ \A e \in enabled : built[e] = resolve_chain(e, doc, Invocations[n])
  BY DEF build
<1> HIDE DEF doc, enabled, built
<1>3. enabled \subseteq Chains
  BY <1>1, <1>2, InvocationsAssumption
<1>4. kind(doc) \in {"avalanchego", "neve"}
  BY <1>1 DEF deserialize_tree, UpstreamKind
<1> QED
  BY <1>1, <1>2, <1>3, <1>4 DEF doc, enabled

\* What a start runs with is what its invocation resolves to.
Resolved == phase = "resolve" => name \in DOMAIN Invocations /\ cfg = Resolution[name]

\* Start, which alone leads there, takes the invocation and its resolution together.
LEMMA ResolvedInvariant == Spec => []Resolved
<1>1. Init => Resolved
  BY DEF Init, Resolved
<1>2. Resolved /\ [Next]_vars => Resolved'
  <2> SUFFICES ASSUME Resolved, [Next]_vars, phase' = "resolve"
               PROVE  name' \in DOMAIN Invocations /\ cfg' = Resolution[name']
    BY DEF Resolved
  <2>1. CASE Start
    BY <2>1 DEF Start
  <2>2. CASE UNCHANGED vars
    BY <2>2 DEF Resolved, vars, process
  <2>3. ASSUME NEW lost, Ends(lost) PROVE FALSE
    BY <2>3 DEF Ends
  <2>4. CASE Next /\ ~Start
    BY <2>3, <2>4 DEF Next, Resolve, BadConfig, fetch_identity, IdentityFails, open, OpenRefused,
       RefusalEnds, insert, persist, CreateStore, WriteBlock, Shutdown, Crash
  <2> QED
    BY <2>1, <2>2, <2>4
<1> QED
  BY <1>1, <1>2, PTL DEF Spec

\* What resolve_chain takes from the document for a chain's keys.
LEMMA ResolvedKeys ==
  ASSUME NEW c, NEW doc, NEW inv
  PROVE  LET run == resolve_chain(c, doc, inv)
             fits == for_chain(c, kind(doc))
         IN /\ run.max_wait = overlay(doc, c, "max_wait", fits.max_wait)
            /\ run.concurrency = overlay(doc, c, "concurrency", fits.concurrency)
            /\ run.backfill_floor = overlay(doc, c, "backfill_floor", fits.backfill_floor)
            /\ run.request_interval = overlay(doc, c, "request_interval", fits.request_interval)
            /\ run.subscribe_blocks <=> kind(doc) = "neve"
            /\ run.ingest_logs <=> overlay(doc, c, "ingest_logs", fits.ingest_logs) /\ c = "c"
<1> DEFINE run == resolve_chain(c, doc, inv)
           fits == for_chain(c, kind(doc))
           url == overlay(doc, c, "rpc_url", derive_endpoints(doc))
           logs == overlay(doc, c, "ingest_logs", fits.ingest_logs) /\ c = "c"
           neve == kind(doc) = "neve"
           wait == overlay(doc, c, "max_wait", fits.max_wait)
           conc == overlay(doc, c, "concurrency", fits.concurrency)
           floor == overlay(doc, c, "backfill_floor", fits.backfill_floor)
           pace == overlay(doc, c, "request_interval", fits.request_interval)
           dir == Get(doc, <<c, "data_dir">>, data_dir(c, base_dir(doc)))
           link == with_token(url, token(doc, inv))
           pacer == host_pacer_for(doc, inv, url)
<1>1. run = [rpc_url |-> link, data_dir |-> dir, backfill_floor |-> floor,
             request_interval |-> pace, max_wait |-> wait, concurrency |-> conc,
             ingest_logs |-> logs, subscribe_blocks |-> neve, host_pacer |-> pacer]
  BY DEF resolve_chain
<1> HIDE DEF run, fits, url, logs, neve, wait, conc, floor, pace, dir, link, pacer
<1>2. run.max_wait = wait /\ run.concurrency = conc
  BY <1>1
<1>3. run.backfill_floor = floor /\ run.request_interval = pace
  BY <1>1
<1>4. run.ingest_logs = logs
  BY <1>1
<1>5. run.subscribe_blocks = neve
  BY <1>1
<1>6. run.ingest_logs <=> overlay(doc, c, "ingest_logs", fits.ingest_logs) /\ c = "c"
  BY <1>4 DEF logs
<1>7. run.subscribe_blocks <=> kind(doc) = "neve"
  BY <1>5 DEF neve
<1>8. /\ run.max_wait = overlay(doc, c, "max_wait", fits.max_wait)
      /\ run.concurrency = overlay(doc, c, "concurrency", fits.concurrency)
      /\ run.backfill_floor = overlay(doc, c, "backfill_floor", fits.backfill_floor)
      /\ run.request_interval = overlay(doc, c, "request_interval", fits.request_interval)
  BY <1>2, <1>3 DEF wait, conc, floor, pace
<1> QED
  BY <1>6, <1>7, <1>8, Zenon DEF run, fits

\* A value given in a higher layer is never outranked by a lower one: for every
\* file, environment and command line, a chain runs with what the highest layer
\* naming its key says, or with the built-in value (apply_key, set_path, overlay).
THEOREM HighestLayerAlwaysWins == Spec => []HighestLayerWins
<1>1. Resolved => HighestLayerWins
  <2> SUFFICES ASSUME Resolved, phase = "resolve", NEW c \in DOMAIN cfg
               PROVE  LET builtin == for_chain(c, IF cfg[c].subscribe_blocks THEN "neve" ELSE "avalanchego")
                          Wins(key) == cfg[c][key] = Ranked(Invocations[name], c, key, builtin[key])
                      IN /\ \A key \in {"max_wait", "concurrency", "backfill_floor",
                                        "request_interval"} : Wins(key)
                         /\ cfg[c].ingest_logs
                              <=> c = "c" /\ Ranked(Invocations[name], c, "ingest_logs", FALSE)
    BY DEF HighestLayerWins
  <2> DEFINE inv == Invocations[name]
             doc == merged(inv)
             fits == for_chain(c, kind(doc))
  <2>1. name \in DOMAIN Invocations /\ cfg = Resolution[name]
    BY DEF Resolved
  <2>2. /\ select_chains(inv) \subseteq Chains /\ c \in select_chains(inv)
        /\ cfg[c] = resolve_chain(c, doc, inv) /\ kind(doc) \in {"avalanchego", "neve"}
    BY <2>1, Resolves
  <2>3. ASSUME NEW key, NEW builtin
        PROVE  overlay(doc, c, key, builtin) = Ranked(inv, c, key, builtin)
    BY <2>1, <2>2, MergedIsRanked
  <2> DEFINE run == resolve_chain(c, doc, inv)
  <2>0. cfg[c] = run
    BY <2>2
  <2> HIDE DEF inv, doc
  <2>10. /\ run.max_wait = overlay(doc, c, "max_wait", fits.max_wait)
         /\ run.concurrency = overlay(doc, c, "concurrency", fits.concurrency)
         /\ run.backfill_floor = overlay(doc, c, "backfill_floor", fits.backfill_floor)
         /\ run.request_interval = overlay(doc, c, "request_interval", fits.request_interval)
         /\ run.subscribe_blocks <=> kind(doc) = "neve"
         /\ run.ingest_logs <=> overlay(doc, c, "ingest_logs", fits.ingest_logs) /\ c = "c"
    BY ResolvedKeys, Zenon
  <2> HIDE DEF fits, run
  <2>4. /\ cfg[c].max_wait = overlay(doc, c, "max_wait", fits.max_wait)
        /\ cfg[c].concurrency = overlay(doc, c, "concurrency", fits.concurrency)
        /\ cfg[c].backfill_floor = overlay(doc, c, "backfill_floor", fits.backfill_floor)
        /\ cfg[c].request_interval = overlay(doc, c, "request_interval", fits.request_interval)
        /\ cfg[c].subscribe_blocks <=> kind(doc) = "neve"
        /\ cfg[c].ingest_logs <=> overlay(doc, c, "ingest_logs", fits.ingest_logs) /\ c = "c"
    BY <2>0, <2>10
  <2>5. (IF cfg[c].subscribe_blocks THEN "neve" ELSE "avalanchego") = kind(doc)
    BY <2>2, <2>4
  <2>6. fits.ingest_logs = FALSE
    BY DEF for_chain, fits
  <2>7. cfg[c].ingest_logs <=> c = "c" /\ Ranked(inv, c, "ingest_logs", FALSE)
    BY <2>3, <2>4, <2>6
  <2>8. \A key \in {"max_wait", "concurrency", "backfill_floor", "request_interval"} :
          cfg[c][key] = Ranked(inv, c, key, fits[key])
    <3>1. cfg[c].max_wait = Ranked(inv, c, "max_wait", fits.max_wait)
      BY <2>3, <2>4
    <3>2. cfg[c].concurrency = Ranked(inv, c, "concurrency", fits.concurrency)
      BY <2>3, <2>4
    <3>3. cfg[c].backfill_floor = Ranked(inv, c, "backfill_floor", fits.backfill_floor)
      BY <2>3, <2>4
    <3>4. cfg[c].request_interval = Ranked(inv, c, "request_interval", fits.request_interval)
      BY <2>3, <2>4
    <3> QED
      BY <3>1, <3>2, <3>3, <3>4
  <2>9. for_chain(c, IF cfg[c].subscribe_blocks THEN "neve" ELSE "avalanchego") = fits
    BY <2>5 DEF fits
  <2> QED
    BY <2>7, <2>8, <2>9 DEF inv
<1> QED
  BY <1>1, ResolvedInvariant, PTL

\* Of the --set arguments that name a key, one is the last.
LEMMA LastExists ==
  ASSUME NEW k \in Nat, NEW S \in SUBSET (1..k), S # {}
  PROVE  \E i \in S : \A j \in S : j <= i
<1> DEFINE R == {ss \in Nat \X Nat : ss[1] < ss[2]}
           T == {n \in Nat : k - n \in S}
<1>1. IsWellFoundedOn(R, Nat)
  BY NatLessThanWellFounded DEF OpToRel
<1>2. \A x, y \in Nat : ~ (<<y, x>> \in R) => x <= y
  OBVIOUS
<1>3. T \subseteq Nat /\ T # {}
  <2>1. PICK i \in S : TRUE
    OBVIOUS
  <2>2. i \in 1..k /\ k - i \in Nat /\ k - (k - i) = i
    OBVIOUS
  <2>3. k - i \in T
    BY <2>1, <2>2
  <2> QED
    BY <2>3
<1> HIDE DEF R
<1>4. PICK x \in T : \A y \in T : ~ (<<y, x>> \in R)
  BY <1>1, <1>3, WFMin
<1>5. x \in Nat /\ k - x \in S /\ \A y \in T : x <= y
  BY <1>2, <1>3, <1>4
<1>6. ASSUME NEW j \in S PROVE j <= k - x
  <2>1. j \in 1..k /\ k - j \in Nat /\ k - (k - j) = j
    OBVIOUS
  <2>2. k - j \in T
    BY <2>1
  <2> QED
    BY <1>5, <2>1, <2>2
<1> QED
  BY <1>5, <1>6

\* The overrides select no chain: which chains are served is settled by the file,
\* --chains and the `enabled` keys alone, before any layer is written (select_chains
\* comes first in resolve_with).
THEOREM OverridesNeverDecide == Spec => []OverridesNeverSelect
<1>1. ASSUME NEW n \in DOMAIN Invocations
      PROVE  select_chains(Bare(Invocations[n])) = select_chains(Invocations[n])
  <2> DEFINE inv == Invocations[n]
             bare == Bare(inv)
  <2>1. /\ bare.file = inv.file /\ bare.chains = inv.chains /\ DOMAIN bare.sets = DOMAIN inv.sets
        /\ \A i \in DOMAIN inv.sets :
             bare.sets[i] = IF Key(inv.sets[i])[2] = "enabled" THEN inv.sets[i] ELSE Unset
    BY DEF Bare
  <2>0. Len(inv.sets) \in Nat /\ DOMAIN inv.sets = 1..Len(inv.sets)
    BY LayersAssumption
  <2> HIDE DEF inv, bare
  <2>2. ASSUME NEW c \in Chains, NEW i \in DOMAIN inv.sets
        PROVE  /\ Key(bare.sets[i]) = <<c, "enabled">> <=> Key(inv.sets[i]) = <<c, "enabled">>
               /\ Key(inv.sets[i]) = <<c, "enabled">> => bare.sets[i] = inv.sets[i]
    <3>1. <<c, "enabled">>[2] = "enabled" /\ Key(Unset) # <<c, "enabled">>
      BY DEF Key, Unset
    <3> QED
      BY <2>1, <3>1
  <2>3. ASSUME NEW c \in Chains
        PROVE  /\ SetsOf(bare, <<c, "enabled">>) = SetsOf(inv, <<c, "enabled">>)
               /\ \A i \in SetsOf(inv, <<c, "enabled">>) : bare.sets[i] = inv.sets[i]
    <3> DEFINE path == <<c, "enabled">>
    <3>1. \A i \in DOMAIN inv.sets : /\ Key(bare.sets[i]) = path <=> Key(inv.sets[i]) = path
                                     /\ Key(inv.sets[i]) = path => bare.sets[i] = inv.sets[i]
      BY <2>2
    <3> HIDE DEF path
    <3>2. /\ SetsOf(bare, path) = SetsOf(inv, path)
          /\ \A i \in SetsOf(inv, path) : bare.sets[i] = inv.sets[i]
      BY <2>1, <3>1 DEF SetsOf
    <3> QED
      BY <3>2 DEF path
  <2>4. ASSUME NEW c \in Chains
        PROVE  /\ set_enabled(bare, c) <=> set_enabled(inv, c)
               /\ set_enabled(inv, c) => LastSet(bare, <<c, "enabled">>) = LastSet(inv, <<c, "enabled">>)
    <3>1. set_enabled(bare, c) <=> set_enabled(inv, c)
      BY <2>3 DEF set_enabled
    <3>2. ASSUME set_enabled(inv, c)
          PROVE  LastSet(bare, <<c, "enabled">>) = LastSet(inv, <<c, "enabled">>)
      <4> DEFINE given == SetsOf(inv, <<c, "enabled">>)
                 Last(S) == CHOOSE i \in S : \A j \in S : j <= i
      <4>1. given # {} /\ given \subseteq 1..Len(inv.sets)
        BY <2>0, <3>2 DEF set_enabled, SetsOf
      <4>2. Last(given) \in given
        BY <2>0, <4>1, LastExists
      <4>3. /\ LastSet(inv, <<c, "enabled">>) = inv.sets[Last(given)][2]
            /\ LastSet(bare, <<c, "enabled">>) = bare.sets[Last(SetsOf(bare, <<c, "enabled">>))][2]
        BY DEF LastSet
      <4> HIDE DEF Last
      <4> QED
        BY <2>3, <4>2, <4>3
    <3> QED
      BY <3>1, <3>2
  <2>5. /\ Declares(bare) <=> Declares(inv)
        /\ declared_chains(bare) = declared_chains(inv)
        /\ \A c : file_enabled(bare, c) = file_enabled(inv, c)
    BY <2>1 DEF Declares, declared_chains, file_enabled, load_tree
  <2>6. select_chains(bare) = select_chains(inv)
    BY <2>1, <2>4, <2>5 DEF select_chains
  <2> QED
    BY <2>6 DEF inv, bare
<1>2. Resolved => OverridesNeverSelect
  <2> SUFFICES ASSUME Resolved, phase = "resolve", cfg # NoConfig
               PROVE  DOMAIN cfg = select_chains(Bare(Invocations[name]))
    BY DEF OverridesNeverSelect
  <2>1. name \in DOMAIN Invocations /\ cfg = Resolution[name]
    BY DEF Resolved
  <2>2. PICK c : c \in DOMAIN Resolution[name]
    BY <2>1, ResolvesPlaced DEF Placed
  <2>3. DOMAIN cfg = select_chains(Invocations[name])
    BY <2>1, <2>2, Resolves
  <2> QED
    BY <1>1, <2>1, <2>3
<1> QED
  BY <1>2, ResolvedInvariant, PTL

\* The rest of the types.
ProcessTypes ==
  /\ starts \in 0..MaxStarts
  /\ identity \in Networks \cup {Unstamped}
  /\ plan \in [DOMAIN plan -> [dir : Dirs, host : Hosts, lost : BOOLEAN]]
  /\ unsynced \subseteq Stamps /\ missing \subseteq Stamps
  /\ relic \in Dirs

\* Every variable keeps its type, for any invocations and any number of starts.
THEOREM STypeCorrect == Spec => []TypeOK
<1>1. Init => ProcessTypes
  <2> SUFFICES ASSUME Init PROVE ProcessTypes
    OBVIOUS
  <2>1. relic \in Dirs
    <3>1. PICK r \in Relics : relic = r.dir
      BY Zenon DEF Init
    <3> QED
      BY <3>1, StartupAssumption, Zenon
  <2>a. MaxStarts \in Nat
    BY StartupAssumption, Zenon
  <2>b. starts = 0
    BY Zenon DEF Init
  <2>2. starts \in 0..MaxStarts
    BY <2>a, <2>b
  <2>3. plan \in [DOMAIN plan -> [dir : Dirs, host : Hosts, lost : BOOLEAN]]
    <3>1. plan = NoConfig
      BY Zenon DEF Init
    <3> QED
      BY <3>1 DEF NoConfig
  <2> QED
    BY <2>1, <2>2, <2>3 DEF Init, ProcessTypes
<1>2. ProcessTypes /\ SInv /\ Resolved /\ [Next]_vars => ProcessTypes'
  <2> SUFFICES ASSUME ProcessTypes, SInv, Resolved, [Next]_vars PROVE ProcessTypes'
    OBVIOUS
  <2>1. CASE Start
    <3>1. starts' \in 0..MaxStarts
      BY <2>1, StartupAssumption DEF Start, ProcessTypes
    <3> QED
      BY <2>1, <3>1 DEF Start, ProcessTypes
  <2>2. CASE Resolve
    <3>1. phase = "resolve" /\ UNCHANGED <<starts, identity, unsynced, missing, relic>>
          /\ plan' = [c \in DOMAIN cfg |-> [dir |-> cfg[c].data_dir, host |-> cfg[c].rpc_url.host,
                                            lost |-> cfg[c].rpc_url.lost]]
      BY <2>2 DEF Resolve
    <3>2. \A c \in DOMAIN cfg : /\ cfg[c].data_dir \in Dirs /\ cfg[c].rpc_url.host \in Hosts
                                /\ cfg[c].rpc_url.lost \in BOOLEAN
      BY <3>1, InvocationsAssumption DEF Resolved
    <3>3. plan' \in [DOMAIN plan' -> [dir : Dirs, host : Hosts, lost : BOOLEAN]]
      BY <3>1, <3>2
    <3> QED
      BY <3>1, <3>3 DEF ProcessTypes
  <2>3. ASSUME NEW lost, Ends(lost) PROVE ProcessTypes'
    <3>1. plan' \in [DOMAIN plan' -> [dir : Dirs, host : Hosts, lost : BOOLEAN]]
      <4>1. plan' = NoConfig
        BY <2>3, Zenon DEF Ends
      <4> QED
        BY <4>1 DEF NoConfig
    <3> QED
      BY <2>3, <3>1 DEF Ends, ProcessTypes
  <2>4. CASE fetch_identity
    <3>1. Net(Current) \in Networks
      BY <2>4, HereIsOwn DEF SInv, fetch_identity, Building
    <3> QED
      BY <2>4, <3>1 DEF fetch_identity, ProcessTypes, Net
  <2>5. CASE open \/ OpenRefused
    BY <2>5 DEF open, OpenRefused, ProcessTypes, Missing, process
  <2>6. CASE insert
    BY <2>6 DEF insert, Inserts, ProcessTypes
  <2>7. CASE persist
    BY <2>7 DEF persist, ProcessTypes
  <2>8. CASE \E c \in Chains : CreateStore(c) \/ WriteBlock(c)
    BY <2>8 DEF CreateStore, WriteBlock, ProcessTypes, process
  <2>9. CASE UNCHANGED vars
    BY <2>9 DEF vars, process, ProcessTypes
  <2> QED
    BY <2>1, <2>2, <2>3, <2>4, <2>5, <2>6, <2>7, <2>8, <2>9 DEF Next, BadConfig, IdentityFails,
       RefusalEnds, Shutdown, Crash
<1>3. SInv /\ ProcessTypes => TypeOK
  <2> SUFFICES ASSUME SInv, ProcessTypes PROVE TypeOK
    OBVIOUS
  <2>1. phase \in {"down", "resolve", "identity", "open", "stamp", "serving", "refused"}
    BY DEF SInv, PlanOK, Building
  <2>2. DOMAIN plan \subseteq Chains /\ queue \subseteq DOMAIN plan
    BY DEF SInv, PlanOK
  <2> QED
    BY <2>1, <2>2 DEF SInv, DiskTypes, ProcessTypes, TypeOK
<1> QED
  BY <1>1, <1>2, <1>3, StartupInvariant, ResolvedInvariant, PTL DEF Spec

==============================================================================
