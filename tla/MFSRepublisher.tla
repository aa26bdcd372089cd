--------------------------- MODULE MFSRepublisher ---------------------------
(***************************************************************************)
(* The republisher of the mutable file system, go-mfs/system.go: it writes *)
(* the root of the tree to the datastore some time after each change.      *)
(*                                                                         *)
(* The roots are numbered in the order of the changes.  A writer is a      *)
(* command that changes the tree, then calls Update (Root.closeChild) and, *)
(* for "files flush" and "files cp", WaitPub (FlushPath).  Run is the one  *)
(* goroutine that publishes, until Close publishes from another one.       *)
(***************************************************************************)
EXTENDS Integers

CONSTANTS
  Writers,       \* goroutines that call Update and WaitPub
  MaxUpdates,    \* bound: how many changes are made
  PublishFails,  \* whether the datastore may refuse a write
  MayClose,      \* whether the root is closed
  NoWriter       \* no request

ASSUME RepublisherAssumption ==
  MaxUpdates \in Nat /\ PublishFails \in BOOLEAN /\ MayClose \in BOOLEAN

VARIABLES
  val,       \* Republisher.val
  lastpub,   \* Republisher.lastpub
  token,     \* whether the buffered channel Publish holds its element
  stored,    \* the datastore's value under /local/filesroot
  best,      \* the latest root that was ever stored
  refused,   \* the latest root whose write the datastore refused, 0 if none
  run,       \* where Run is: "idle" is the outer select, "timing" the inner
  topub,     \* the local variable of Run's publish
  answer,    \* the writer whose request Run is serving, or NoWriter
  at,        \* where each writer is
  wants,     \* the change each writer made last
  closer     \* where Close is

vars == <<val, lastpub, token, stored, best, refused, run, topub, answer, at, wants, closer>>

Latest(n) == IF n > best THEN n ELSE best

\* NewRoot sets val to the root it has loaded, and lastpub is undefined
Init ==
  /\ val = 0 /\ lastpub = -1 /\ stored = 0 /\ best = 0 /\ refused = 0
  /\ token = FALSE
  /\ run = "idle" /\ topub = 0 /\ answer = NoWriter
  /\ at = [w \in Writers |-> "away"]
  /\ wants = [w \in Writers |-> 0]
  /\ closer = "open"

-----------------------------------------------------------------------------
(* Writers.                                                                *)

\* Mistakes: a writer builds on the tree it saw last, not on the current one;
\* the signal needs a receiver that waits for it.
SetValStale(w) ==
  /\ at[w] = "away" /\ val < MaxUpdates /\ closer = "open"
  /\ val' = wants[w] + 1
  /\ wants' = [wants EXCEPT ![w] = wants[w] + 1]
  /\ at' = [at EXCEPT ![w] = "signal"]
  /\ UNCHANGED <<lastpub, token, stored, best, refused, run, topub, answer, closer>>

SignalUnbuffered(w) ==
  /\ at[w] = "signal"
  /\ token' = (token \/ run \in {"idle", "timing"})
  /\ at' = [at EXCEPT ![w] = "updated"]
  /\ UNCHANGED <<val, lastpub, stored, best, refused, run, topub, answer, wants, closer>>

\* Update: setVal ...
SetVal(w) ==
  /\ at[w] = "away" /\ val < MaxUpdates /\ closer = "open"
  /\ val' = val + 1
  /\ wants' = [wants EXCEPT ![w] = val + 1]
  /\ at' = [at EXCEPT ![w] = "signal"]
  /\ UNCHANGED <<lastpub, token, stored, best, refused, run, topub, answer, closer>>

\* ... then a signal, unless one is waiting already
Signal(w) ==
  /\ at[w] = "signal"
  /\ token' = TRUE
  /\ at' = [at EXCEPT ![w] = "updated"]
  /\ UNCHANGED <<val, lastpub, stored, best, refused, run, topub, answer, wants, closer>>

\* Without FlushPath the command is over, with it WaitPub compares first.
WaitPub(w) ==
  /\ at[w] = "updated"
  /\ \/ at' = [at EXCEPT ![w] = "away"]
     \/ at' = [at EXCEPT ![w] = IF lastpub = val THEN "published" ELSE "offer"]
  /\ UNCHANGED <<val, lastpub, token, stored, best, refused, run, topub, answer, wants, closer>>

WaitPubReturns(w) ==
  /\ at[w] = "published"
  /\ at' = [at EXCEPT ![w] = "away"]
  /\ UNCHANGED <<val, lastpub, token, stored, best, refused, run, topub, answer, wants, closer>>

-----------------------------------------------------------------------------
(* Run.                                                                    *)

Publishing == {"read", "put", "set"}

TakeSignal ==
  /\ run = "idle" /\ token
  /\ token' = FALSE
  /\ run' = "timing"
  /\ UNCHANGED <<val, lastpub, stored, best, refused, topub, answer, at, wants, closer>>

\* another signal restarts the short timer
ExtendWait ==
  /\ run = "timing" /\ token
  /\ token' = FALSE
  /\ UNCHANGED <<val, lastpub, stored, best, refused, run, topub, answer, at, wants, closer>>

\* Mistakes: the timeout does not publish; publish reads the wrong field;
\* publish reads val once more when it sets lastpub.
TimeoutForgets ==
  /\ run = "timing"
  /\ run' = "idle"
  /\ UNCHANGED <<val, lastpub, token, stored, best, refused, topub, answer, at, wants, closer>>

ReadLastpub ==
  /\ run = "read"
  /\ topub' = lastpub
  /\ run' = "put"
  /\ UNCHANGED <<val, lastpub, token, stored, best, refused, answer, at, wants, closer>>

SetLastpubToVal ==
  /\ run = "set"
  /\ lastpub' = val
  /\ run' = "answer"
  /\ UNCHANGED <<val, token, stored, best, refused, topub, answer, at, wants, closer>>

Timeout ==
  /\ run = "timing"
  /\ run' = "read"
  /\ UNCHANGED <<val, lastpub, token, stored, best, refused, topub, answer, at, wants, closer>>

\* pubnowresp = <-np.pubnowch
PublishNow(w) ==
  /\ run = "timing" /\ at[w] = "offer"
  /\ answer' = w
  /\ at' = [at EXCEPT ![w] = "waiting"]
  /\ run' = "read"
  /\ UNCHANGED <<val, lastpub, token, stored, best, refused, topub, wants, closer>>

\* publish: read val, call the PubFunc, set lastpub
ReadVal ==
  /\ run = "read"
  /\ topub' = val
  /\ run' = "put"
  /\ UNCHANGED <<val, lastpub, token, stored, best, refused, answer, at, wants, closer>>

PutVal ==
  /\ run = "put"
  /\ \/ stored' = topub /\ best' = Latest(topub) /\ run' = "set" /\ UNCHANGED refused
     \/ PublishFails /\ refused' = (IF topub > refused THEN topub ELSE refused) /\ run' = "answer" /\ UNCHANGED <<stored, best>>
  /\ UNCHANGED <<val, lastpub, token, topub, answer, at, wants, closer>>

SetLastpub ==
  /\ run = "set"
  /\ lastpub' = topub
  /\ run' = "answer"
  /\ UNCHANGED <<val, token, stored, best, refused, topub, answer, at, wants, closer>>

Answer ==
  /\ run = "answer"
  /\ run' = "idle"
  /\ at' = IF answer = NoWriter THEN at ELSE [at EXCEPT ![answer] = "published"]
  /\ answer' = NoWriter
  /\ UNCHANGED <<val, lastpub, token, stored, best, refused, topub, wants, closer>>

-----------------------------------------------------------------------------
(* Root.Close: Update, publish, cancel.  Run returns when it next waits.   *)
(* No change is made any more once Close has begun.                        *)

Close ==
  /\ MayClose /\ closer = "open"
  /\ closer' = "publish"
  /\ token' = TRUE
  /\ UNCHANGED <<val, lastpub, stored, best, refused, run, topub, answer, at, wants>>

ClosePublish ==
  /\ closer = "publish"
  /\ \/ stored' = val /\ best' = val /\ closer' = "set" /\ UNCHANGED refused
     \/ PublishFails /\ refused' = val /\ closer' = "closed" /\ UNCHANGED <<stored, best>>
  /\ UNCHANGED <<val, lastpub, token, run, topub, answer, at, wants>>

CloseSetLastpub ==
  /\ closer = "set"
  /\ lastpub' = val
  /\ closer' = "closed"
  /\ UNCHANGED <<val, token, stored, best, refused, run, topub, answer, at, wants>>

RunReturns ==
  /\ closer = "closed" /\ run \in {"idle", "timing"}
  /\ run' = "returned"
  /\ UNCHANGED <<val, lastpub, token, stored, best, refused, topub, answer, at, wants, closer>>

-----------------------------------------------------------------------------
Run ==
  \/ TakeSignal \/ ExtendWait \/ Timeout \/ ReadVal \/ PutVal \/ SetLastpub
  \/ Answer \/ RunReturns
  \/ \E w \in Writers : PublishNow(w)

Writer(w) == SetVal(w) \/ Signal(w) \/ WaitPub(w) \/ WaitPubReturns(w)

Next ==
  \/ Run
  \/ \E w \in Writers : Writer(w)
  \/ Close \/ ClosePublish \/ CloseSetLastpub

Spec == Init /\ [][Next]_vars

\* Run is a goroutine of its own whose timers expire, and a writer inside
\* Update goes on.  Nobody has to make another change.
FairSpec ==
  /\ Spec /\ WF_vars(Run) /\ WF_vars(ClosePublish \/ CloseSetLastpub)
  /\ \A w \in Writers : WF_vars(Signal(w)) /\ WF_vars(WaitPub(w)) /\ WF_vars(WaitPubReturns(w))

-----------------------------------------------------------------------------
TypeOK ==
  /\ val \in 0 .. MaxUpdates /\ lastpub \in -1 .. MaxUpdates
  /\ stored \in 0 .. MaxUpdates /\ best \in 0 .. MaxUpdates /\ topub \in 0 .. MaxUpdates
  /\ token \in BOOLEAN /\ refused \in 0 .. MaxUpdates
  /\ run \in Publishing \cup {"idle", "timing", "answer", "returned"}
  /\ answer \in Writers \cup {NoWriter}
  /\ at \in [Writers -> {"away", "signal", "updated", "offer", "waiting", "published"}]
  /\ wants \in [Writers -> 0 .. MaxUpdates]
  /\ closer \in {"open", "publish", "set", "closed"}

\* No change is forgotten: while the last one has not been stored, a signal is
\* in the channel or on its way there, or Run is about to read val, or to
\* store it, or Close is, or the datastore refused that very write (which Run
\* only logs).
NoUpdateLost ==
  best # val =>
    \/ token /\ run # "returned"
    \/ run \in {"timing", "read"}
    \/ run = "put" /\ topub = val
    \/ \E w \in Writers : at[w] = "signal"
    \/ closer = "publish"
    \/ refused = val

\* "will block until `val` has been published": when WaitPub returns, the
\* change the writer made before it, or a later one, has been stored, unless the
\* datastore refused such a write: Run answers the writer all the same.
WaitPubMeansStored ==
  \A w \in Writers : at[w] = "published" => best >= wants[w] \/ refused >= wants[w]

\* As long as only Run publishes, the stored root never goes back to an
\* older one, whichever writes the datastore refuses.
StoredNeverGoesBack == [][closer = "open" => stored' >= stored]_vars

\* Every change is eventually stored, or a later one is, or that write is refused.
EventuallyStored == \A n \in 1 .. MaxUpdates : val = n ~> (best >= n \/ refused >= n)

\* A writer inside WaitPub returns once its change has been published.
WaitPubEnds == \A w \in Writers : at[w] = "offer" ~> at[w] = "published"
=============================================================================
