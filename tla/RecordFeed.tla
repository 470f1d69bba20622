------------------------------ MODULE RecordFeed ------------------------------
(***************************************************************************)
(* What a P-chain instance that fetches from a node promises its readers,  *)
(* as src/src/platform/rpc.rs (getHeight) and the newRecords subscription  *)
(* rely on it: the stored heights are one interval that is created at some *)
(* height and only grows by its next height, so the high-water mark is the *)
(* contiguous frontier; and a record is published at most once, while it   *)
(* is the newest one stored, and possibly never.                           *)
(***************************************************************************)
EXTENDS Integers

CONSTANT Top   \* bound: the highest height of the modelled chain

VARIABLES live,    \* the store exists
          lo,      \* its lowest height
          hi,      \* its highest height
          sent     \* the heights published so far

feedVars == <<live, lo, hi, sent>>

FeedInit ==
  /\ live = FALSE
  /\ lo = 0 /\ hi = 0
  /\ sent = {}

Open ==
  /\ ~live
  /\ live' = TRUE
  /\ \E h \in 0..Top : lo' = h /\ hi' = h
  /\ UNCHANGED sent

Extend ==
  /\ live
  /\ hi < Top
  /\ hi' = hi + 1
  /\ UNCHANGED <<live, lo, sent>>

Publish ==
  /\ live
  /\ hi \notin sent
  /\ sent' = sent \cup {hi}
  /\ UNCHANGED <<live, lo, hi>>

FeedNext == Open \/ Extend \/ Publish

FeedSpec == FeedInit /\ [][FeedNext]_feedVars

==============================================================================
