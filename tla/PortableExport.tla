---------------------------- MODULE PortableExport ----------------------------
(***************************************************************************)
(* export create --portable (v2ExportPortable in cmd/convo-relay), and the *)
(* verifier of the directory it makes (package bundle).                    *)
(*                                                                         *)
(* Commands make the same target at the same time: each writes a temporary *)
(* directory of its own, one payload at a time and the manifest last,      *)
(* verifies it and renames it to the target.  What a command read of the   *)
(* session is r, a record of the report; its payloads are numbered in the  *)
(* order of their paths, the order in which they are written.              *)
(***************************************************************************)
EXTENDS Integers

CONSTANTS Exporter,   \* the commands
          Inputs,     \* number of blobs that the plan refers to
          Absent      \* no directory

ASSUME InputsAssumption == Inputs \in Nat

VARIABLES target,     \* the directory at the output path
          temp,       \* the temporary directory of each command
          step        \* how far each command is

evars == <<target, temp, step>>

\* Session, transcript, diagnostics and the inputs; the manifest is last.
Payloads == Inputs + 3

\* What a report calls the status of its session.
Shown == {"completed", "failed", "invalid_result", "awaiting_decision", "interrupted", "running"}

\* written: the files that are there; manifest: it is one of them.
Directory == [written : 0..Payloads, manifest : BOOLEAN,
              session : [status : Shown, turns : Nat, valid : BOOLEAN]]

ASSUME AbsentAssumption == Absent \notin Directory

\* VerifyPortableDirectory: every payload of the inventory is there, no file
\* is outside of it, and the payloads agree with the manifest and the plan.
Verifies(d) == d.manifest /\ d.written = Payloads

EInit == target = Absent /\ temp = [e \in Exporter |-> Absent] /\ step = [e \in Exporter |-> "off"]

Moves(e, from, to) == step[e] = from /\ step' = [step EXCEPT ![e] = to]

\* Mutant of Begin: a session that still runs is taken.
BeginAnyTime(e, r) ==
  /\ Moves(e, "off", "write") /\ target = Absent
  /\ temp' = [temp EXCEPT ![e] = [written |-> 0, manifest |-> FALSE, session |-> r]]
  /\ UNCHANGED target

\* The session is read once, and its root report must be of a session that is
\* over; what v2AttentionRequired calls invalid_result is refused.
Begin(e, r) ==
  /\ Moves(e, "off", "write") /\ target = Absent
  /\ r.valid /\ r.status \in {"completed", "failed"}
  /\ temp' = [temp EXCEPT ![e] = [written |-> 0, manifest |-> FALSE, session |-> r]]
  /\ UNCHANGED target

WritePayload(e) ==
  /\ step[e] = "write" /\ temp[e].written < Payloads
  /\ temp' = [temp EXCEPT ![e].written = @ + 1] /\ UNCHANGED <<target, step>>

WriteManifest(e) ==
  /\ Moves(e, "write", "verify") /\ temp[e].written = Payloads
  /\ temp' = [temp EXCEPT ![e].manifest = TRUE] /\ UNCHANGED target

VerifyTemp(e) == Moves(e, "verify", "look") /\ Verifies(temp[e]) /\ UNCHANGED <<target, temp>>

Look(e) == Moves(e, "look", "rename") /\ target = Absent /\ UNCHANGED <<target, temp>>

\* Mutant of Rename: what is there gives way.
RenameOver(e) ==
  /\ Moves(e, "rename", "off")
  /\ target' = temp[e] /\ temp' = [temp EXCEPT ![e] = Absent]

\* A directory with files in it is not renamed over.
Rename(e) ==
  /\ Moves(e, "rename", "off") /\ target = Absent
  /\ target' = temp[e] /\ temp' = [temp EXCEPT ![e] = Absent]

\* Mutant of GiveUp: nothing is removed.
GiveUpLeaving(e) ==
  /\ step[e] # "off" /\ step' = [step EXCEPT ![e] = "off"] /\ UNCHANGED <<target, temp>>

\* Any step fails, one of the guards above or the file system, and the temporary
\* directory is removed; or the command dies and leaves it, under a name that
\* no other command takes.
GiveUp(e) ==
  /\ step[e] # "off" /\ step' = [step EXCEPT ![e] = "off"]
  /\ temp' = [temp EXCEPT ![e] = Absent] /\ UNCHANGED target

ENext(r) ==
  \E e \in Exporter :
    \/ Begin(e, r) \/ WritePayload(e) \/ WriteManifest(e) \/ VerifyTemp(e) \/ Look(e) \/ Rename(e)
    \/ GiveUp(e)

\* A published directory is never replaced, and it verifies.
PublishedOnce ==
  [][/\ target # Absent => target' = target
     /\ target' # target => Verifies(target')]_evars
=============================================================================
