----------------------------- MODULE DurableLog -----------------------------
(***************************************************************************)
(* What events.jsonl promises to the engine: one history that only grows   *)
(* by one event at a time, numbered without gaps, of which a power loss    *)
(* may cut the end but never an event whose Append has returned.           *)
(***************************************************************************)
EXTENDS Naturals, Sequences

CONSTANT Event     \* events; e.seq is the position an event was given

VARIABLES hist,    \* what a replay of the file returns
          acked    \* how many of them an Append has confirmed

Init == hist = <<>> /\ acked = 0

Extend(e) ==
  /\ e.seq = Len(hist) + 1
  /\ hist' = Append(hist, e)
  /\ UNCHANGED acked

\* Append returns: the event, and all before it, are there to stay.
Confirm == acked' = Len(hist) /\ UNCHANGED hist

Lose(n) ==
  /\ n \in acked..Len(hist)
  /\ hist' = SubSeq(hist, 1, n)
  /\ UNCHANGED acked

Next == Confirm \/ (\E e \in Event : Extend(e)) \/ (\E n \in 0..Len(hist) : Lose(n))

Spec == Init /\ [][Next]_<<hist, acked>>
=============================================================================
