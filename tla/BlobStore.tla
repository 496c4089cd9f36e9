----------------------------- MODULE BlobStore ------------------------------
(***************************************************************************)
(* The content store of a session directory (internal/blobstore): a file   *)
(* per digest below blobs/sha256, written to a temporary file, synced,     *)
(* linked to its digest without replacement, and the directory synced.     *)
(*                                                                         *)
(* A digest stands for the only bytes that hash to it.  A name that was    *)
(* linked but not yet synced may be missing after a power loss, and bytes  *)
(* that were not synced may be damaged by one.  The quotas of Limits are   *)
(* left out: every caller passes Limits{}.                                 *)
(***************************************************************************)
EXTENDS FiniteSets, Naturals

CONSTANTS Proc,     \* processes that open the store
          Digest    \* payloads, named by their SHA-256

VARIABLES
  opened,    \* processes with an open Store
  put,       \* the Put under way in each process
  orphans,   \* temporary files whose process is gone
  visible,   \* digests that name a file
  durable,   \* digests whose name was synced with the directory
  settled,   \* digests whose linked bytes were synced
  damaged,   \* digests whose file does not hash to its name
  returned,  \* references each process has been given
  early      \* digests that were returned before their name was durable (history)

blobVars == <<opened, put, orphans, visible, durable, settled, damaged, returned, early>>

NoPut == [step |-> "none"]
Put   == {NoPut} \cup [step : {"copied", "synced", "linked"}, digest : Digest, synced : BOOLEAN]

BlobTypeOK ==
  /\ opened \subseteq Proc
  /\ put \in [Proc -> Put]
  /\ \A p \in Proc : put[p] # NoPut => p \in opened
  /\ orphans \in BOOLEAN
  /\ returned \in [Proc -> SUBSET Digest] /\ early \subseteq Digest
  /\ visible \subseteq Digest /\ durable \subseteq visible
  /\ settled \subseteq visible /\ damaged \subseteq visible

BlobInit ==
  /\ opened = {} /\ put = [p \in Proc |-> NoPut]
  /\ orphans = FALSE
  /\ returned = [p \in Proc |-> {}] /\ early = {}
  /\ visible = {} /\ durable = {} /\ settled = {} /\ damaged = {}

-----------------------------------------------------------------------------
Putting(p) == put[p] # NoPut

\* openStore adds up the directory, and list rejects every file whose name is
\* not a digest: a temporary file, of a dead process or of a running Put.
Listable == ~orphans /\ \A p \in Proc : ~Putting(p)

OpenStore(p) ==
  /\ p \notin opened /\ Listable
  /\ opened' = opened \cup {p}
  /\ UNCHANGED <<put, orphans, visible, durable, settled, damaged, returned, early>>

\* CreateTemp and the copy of the bytes.  A failed copy removes the file and
\* changes nothing.
PutCopy(p, d) ==
  /\ p \in opened /\ ~Putting(p)
  /\ put' = [put EXCEPT ![p] = [step |-> "copied", digest |-> d, synced |-> FALSE]]
  /\ UNCHANGED <<opened, orphans, visible, durable, settled, damaged, returned, early>>

\* Mutant of PutSync: the bytes are not synced before they are published.
PutSyncSkipped(p) ==
  /\ Putting(p) /\ put[p].step = "copied"
  /\ put' = [put EXCEPT ![p].step = "synced"]
  /\ UNCHANGED <<opened, orphans, visible, durable, settled, damaged, returned, early>>

\* temporary.Sync; a failure removes the file and returns the error.
PutSync(p) ==
  /\ Putting(p) /\ put[p].step = "copied"
  /\ \/ put' = [put EXCEPT ![p].step = "synced", ![p].synced = TRUE]
     \/ put' = [put EXCEPT ![p] = NoPut]
  /\ UNCHANGED <<opened, orphans, visible, durable, settled, damaged, returned, early>>

\* What Verify accepts: the name is there and its bytes hash to it.
Intact(d) == d \in visible /\ d \notin damaged

\* Lstat(final), then Verify of a file that is there, or link(2).  A digest
\* that is there already is returned as it is, without a directory sync.
PutLink(p) ==
  /\ Putting(p) /\ put[p].step = "synced"
  /\ LET d == put[p].digest IN
     IF d \in visible
     THEN /\ put' = [put EXCEPT ![p] = NoPut]
          /\ IF Intact(d)
             THEN /\ returned' = [returned EXCEPT ![p] = @ \cup {d}]
                  /\ early' = early \cup ({d} \ durable)
             ELSE UNCHANGED <<returned, early>>
          /\ UNCHANGED <<visible, settled>>
     ELSE /\ put' = [put EXCEPT ![p].step = "linked"]
          /\ visible' = visible \cup {d}
          /\ settled' = IF put[p].synced THEN settled \cup {d} ELSE settled
          /\ UNCHANGED <<returned, early>>
  /\ UNCHANGED <<opened, orphans, durable, damaged>>

\* syncDirectory makes every linked name durable; a failure returns the error
\* and leaves the name where it is.
PutSyncDirectory(p) ==
  /\ Putting(p) /\ put[p].step = "linked"
  /\ put' = [put EXCEPT ![p] = NoPut]
  /\ \/ /\ durable' = visible
        /\ returned' = [returned EXCEPT ![p] = @ \cup {put[p].digest}]
     \/ UNCHANGED <<durable, returned>>
  /\ UNCHANGED <<opened, orphans, visible, settled, damaged, early>>

PutStep(p) ==
  (\E d \in Digest : PutCopy(p, d)) \/ PutSync(p) \/ PutLink(p) \/ PutSyncDirectory(p)

-----------------------------------------------------------------------------
\* A process ends, or dies; a death in the middle of a Put leaves its
\* temporary file, which no later code removes.
StopStore(P) ==
  /\ opened' = opened \ P
  /\ put' = [p \in Proc |-> IF p \in P THEN NoPut ELSE put[p]]
  /\ returned' = [p \in Proc |-> IF p \in P THEN {} ELSE returned[p]]
  /\ orphans' = (orphans \/ \E p \in P : Putting(p))

CloseStore(p) ==
  /\ p \in opened /\ ~Putting(p)
  /\ StopStore({p})
  /\ UNCHANGED <<visible, durable, settled, damaged, early>>

CrashStore(p) ==
  /\ p \in opened
  /\ StopStore({p})
  /\ UNCHANGED <<visible, durable, settled, damaged, early>>

\* The machine stops: names that were not synced may be gone, and so may the
\* temporary files; bytes that were not synced may be damaged.
LoseStore ==
  \E kept \in SUBSET (visible \ durable), torn \in SUBSET (visible \ settled) :
    /\ opened' = {} /\ put' = [p \in Proc |-> NoPut]
    /\ returned' = [p \in Proc |-> {}]
    /\ orphans' \in {orphans, orphans \/ \E p \in Proc : Putting(p)}
    /\ visible' = durable \cup kept
    /\ durable' = durable \cup kept
    /\ settled' = settled \cap visible'
    /\ damaged' = (damaged \cup torn) \cap visible'
    /\ UNCHANGED early

BlobNext ==
  \/ \E p \in Proc : OpenStore(p) \/ PutStep(p) \/ CloseStore(p) \/ CrashStore(p)
  \/ LoseStore

-----------------------------------------------------------------------------
\* A digest never names other bytes than its own, whatever process died or
\* whatever the machine lost: bytes are synced before their name appears
\* (blobstore.go:197-246).
BlobIntact == damaged = {}

\* PutMediaType "stores raw bytes atomically and fsyncs them before returning
\* a reference": the name that a returned reference needs survives a power
\* loss (blobstore.go:170-172).
ReturnedDurable == \A p \in Proc : returned[p] \subseteq durable

\* "A crash after Put but before event append is therefore readable"
\* (blobstore.go:398-399): once every process is gone the next one can open
\* the store.
StoreOpens == opened = {} => Listable
=============================================================================
