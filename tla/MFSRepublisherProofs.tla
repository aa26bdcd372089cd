------------------------ MODULE MFSRepublisherProofs ------------------------
(***************************************************************************)
(* Proofs about MFSRepublisher, for any set of writers and any number of   *)
(* changes, whether the datastore refuses writes or not and whether the    *)
(* root is closed or not.                                                  *)
(***************************************************************************)
EXTENDS MFSRepublisher, TLAPS

\* Nothing that was stored, refused, read or asked for is newer than val, and
\* lastpub names a root that was stored.
OrderInv ==
  /\ best <= val /\ refused <= val /\ topub <= val
  /\ stored <= best /\ lastpub <= best
  /\ \A w \in Writers : wants[w] <= val

\* What Run's publish has read is not older than the stored root, until Close
\* publishes beside it.
RunInv ==
  /\ run = "put" /\ closer = "open" => topub >= stored
  /\ run = "set" => topub <= best
  /\ run = "returned" => closer = "closed"

\* The writer whose request Run serves waits for it, and val was read after
\* its change.
AnswerInv ==
  answer # NoWriter =>
    /\ at[answer] = "waiting"
    /\ run \in {"put", "set"} => topub >= wants[answer]
    /\ run = "answer" => best >= wants[answer] \/ refused >= wants[answer]

\* Close has stored the last change, or the datastore has refused it.
CloseInv ==
  /\ closer = "set" => best = val
  /\ closer = "closed" => best = val \/ refused = val

RepInv ==
  /\ TypeOK /\ OrderInv /\ RunInv /\ AnswerInv /\ CloseInv
  /\ NoUpdateLost /\ WaitPubMeansStored

-----------------------------------------------------------------------------
\* A republisher that just started has nothing to publish.
LEMMA RepInvInit == Init => RepInv
  <1> SUFFICES ASSUME Init PROVE RepInv
    BY Zenon
  <1>1. TypeOK
    <2>1. token \in BOOLEAN
      BY Zenon DEF Init
    <2>2. 0 \in 0 .. MaxUpdates /\ -1 \in -1 .. MaxUpdates
      BY RepublisherAssumption
    <2> QED BY <2>1, <2>2, Zenon DEF Init, TypeOK, Publishing
  <1>2. OrderInv /\ RunInv /\ AnswerInv /\ CloseInv
    BY DEF Init, OrderInv, RunInv, AnswerInv, CloseInv
  <1>3. NoUpdateLost /\ WaitPubMeansStored
    BY Zenon DEF Init, NoUpdateLost, WaitPubMeansStored
  <1> QED BY <1>1, <1>2, <1>3, Zenon DEF RepInv

\* Update: the new change is newer than everything, and a signal follows it.
LEMMA WriterStep ==
  ASSUME RepInv, NEW w \in Writers, Writer(w)
  PROVE  RepInv'
  <1> USE RepublisherAssumption DEF RepInv, Publishing
  <1>1. CASE SetVal(w)
    <2>1. /\ val' = val + 1 /\ val' \in 0 .. MaxUpdates
          /\ wants' = [wants EXCEPT ![w] = val'] /\ at' = [at EXCEPT ![w] = "signal"]
          /\ closer = "open" /\ at[w] = "away"
          /\ UNCHANGED <<lastpub, token, stored, best, refused, run, topub, answer, closer>>
      BY <1>1 DEF SetVal, TypeOK
    <2>2. TypeOK'
      BY <2>1, Zenon DEF TypeOK
    <2>3. OrderInv' /\ RunInv' /\ CloseInv'
      BY <2>1 DEF TypeOK, OrderInv, RunInv, CloseInv
    <2>4. AnswerInv'
      BY <2>1, Zenon DEF TypeOK, AnswerInv
    <2>5. NoUpdateLost'
      BY <2>1, Zenon DEF TypeOK, NoUpdateLost
    <2>6. WaitPubMeansStored'
      BY <2>1, Zenon DEF TypeOK, WaitPubMeansStored
    <2> QED BY <2>2, <2>3, <2>4, <2>5, <2>6, Zenon
  <1>2. CASE Signal(w)
    <2>1. TypeOK' /\ OrderInv' /\ RunInv' /\ CloseInv' /\ AnswerInv'
      BY <1>2, Zenon DEF Signal, TypeOK, OrderInv, RunInv, CloseInv, AnswerInv
    <2>2. NoUpdateLost'
      BY <1>2, Zenon DEF Signal, TypeOK, NoUpdateLost, RunInv, CloseInv
    <2>3. WaitPubMeansStored'
      BY <1>2, Zenon DEF Signal, TypeOK, WaitPubMeansStored
    <2> QED BY <2>1, <2>2, <2>3, Zenon
  <1>3. CASE WaitPub(w) \/ WaitPubReturns(w)
    <2>1. TypeOK' /\ OrderInv' /\ RunInv' /\ CloseInv' /\ AnswerInv'
      BY <1>3 DEF WaitPub, WaitPubReturns, TypeOK, OrderInv, RunInv, CloseInv, AnswerInv
    <2>2. NoUpdateLost'
      BY <1>3, Zenon DEF WaitPub, WaitPubReturns, TypeOK, NoUpdateLost
    <2>3. WaitPubMeansStored'
      BY <1>3 DEF WaitPub, WaitPubReturns, TypeOK, OrderInv, WaitPubMeansStored
    <2> QED BY <2>1, <2>2, <2>3, Zenon
  <1> QED BY <1>1, <1>2, <1>3, Zenon DEF Writer

\* Run: a signal that was taken is followed by a read of val, and what was read
\* is stored or refused before the writer gets its answer.
LEMMA RunStep ==
  ASSUME RepInv, Run
  PROVE  RepInv'
  <1> USE RepublisherAssumption DEF RepInv, Publishing
  <1>1. CASE TakeSignal \/ ExtendWait \/ Timeout \/ RunReturns
    <2>1. TypeOK' /\ OrderInv' /\ RunInv' /\ CloseInv' /\ AnswerInv'
      BY <1>1, Zenon DEF TakeSignal, ExtendWait, Timeout, RunReturns, TypeOK, OrderInv, RunInv,
                  CloseInv, AnswerInv
    <2>2. NoUpdateLost' /\ WaitPubMeansStored'
      BY <1>1, Zenon DEF TakeSignal, ExtendWait, Timeout, RunReturns, TypeOK, CloseInv,
                  NoUpdateLost, WaitPubMeansStored
    <2> QED BY <2>1, <2>2, Zenon
  <1>2. ASSUME NEW w \in Writers, PublishNow(w) PROVE RepInv'
    <2>1. TypeOK' /\ OrderInv' /\ RunInv' /\ CloseInv' /\ AnswerInv'
      BY <1>2, Zenon DEF PublishNow, TypeOK, OrderInv, RunInv, CloseInv, AnswerInv
    <2>2. NoUpdateLost' /\ WaitPubMeansStored'
      BY <1>2, Zenon DEF PublishNow, TypeOK, NoUpdateLost, WaitPubMeansStored
    <2> QED BY <2>1, <2>2, Zenon
  <1>3. CASE ReadVal
    <2>1. TypeOK' /\ OrderInv' /\ RunInv' /\ CloseInv' /\ AnswerInv'
      BY <1>3 DEF ReadVal, TypeOK, OrderInv, RunInv, CloseInv, AnswerInv
    <2>2. NoUpdateLost' /\ WaitPubMeansStored'
      BY <1>3, Zenon DEF ReadVal, TypeOK, NoUpdateLost, WaitPubMeansStored
    <2> QED BY <2>1, <2>2, Zenon
  <1>4. CASE PutVal
    <2>1. /\ UNCHANGED <<val, lastpub, token, topub, answer, at, wants, closer>>
          /\ run = "put" /\ run' \in {"set", "answer"}
          /\ best' \in 0 .. MaxUpdates /\ best' >= best /\ best' <= val
          /\ refused' \in 0 .. MaxUpdates /\ refused' >= refused /\ refused' <= val
          /\ stored' \in 0 .. MaxUpdates /\ stored' <= best'
          /\ run' = "set" => topub <= best'
          /\ run' = "answer" => topub <= refused'
      BY <1>4 DEF PutVal, Latest, TypeOK, OrderInv
    <2>2. TypeOK' /\ OrderInv' /\ RunInv' /\ CloseInv' /\ AnswerInv'
      BY <2>1 DEF TypeOK, OrderInv, RunInv, CloseInv, AnswerInv
    <2>3. NoUpdateLost' /\ WaitPubMeansStored'
      BY <2>1 DEF TypeOK, OrderInv, NoUpdateLost, WaitPubMeansStored
    <2> QED BY <2>2, <2>3, Zenon
  <1>5. CASE SetLastpub
    <2>1. TypeOK' /\ OrderInv' /\ RunInv' /\ CloseInv' /\ AnswerInv'
      BY <1>5 DEF SetLastpub, TypeOK, OrderInv, RunInv, CloseInv, AnswerInv
    <2>2. NoUpdateLost' /\ WaitPubMeansStored'
      BY <1>5, Zenon DEF SetLastpub, TypeOK, NoUpdateLost, WaitPubMeansStored
    <2> QED BY <2>1, <2>2, Zenon
  <1>6. CASE Answer
    <2>1. TypeOK' /\ OrderInv' /\ RunInv' /\ CloseInv' /\ AnswerInv'
      BY <1>6, Zenon DEF Answer, TypeOK, OrderInv, RunInv, CloseInv, AnswerInv
    <2>2. NoUpdateLost' /\ WaitPubMeansStored'
      BY <1>6, Zenon DEF Answer, TypeOK, AnswerInv, NoUpdateLost, WaitPubMeansStored
    <2> QED BY <2>1, <2>2, Zenon
  <1> QED BY <1>1, <1>2, <1>3, <1>4, <1>5, <1>6, Zenon DEF Run

\* Close: the last change is stored or refused, however late Run's own
\* publish comes.
LEMMA CloseStep ==
  ASSUME RepInv, Close \/ ClosePublish \/ CloseSetLastpub
  PROVE  RepInv'
  <1> USE RepublisherAssumption DEF RepInv, Publishing
  <1>1. CASE Close
    <2>1. TypeOK' /\ OrderInv' /\ RunInv' /\ CloseInv' /\ AnswerInv'
      BY <1>1, Zenon DEF Close, TypeOK, OrderInv, RunInv, CloseInv, AnswerInv
    <2>2. NoUpdateLost' /\ WaitPubMeansStored'
      BY <1>1, Zenon DEF Close, TypeOK, NoUpdateLost, WaitPubMeansStored
    <2> QED BY <2>1, <2>2, Zenon
  <1>2. CASE ClosePublish
    <2>1. TypeOK' /\ OrderInv' /\ RunInv' /\ CloseInv' /\ AnswerInv'
      BY <1>2 DEF ClosePublish, TypeOK, OrderInv, RunInv, CloseInv, AnswerInv
    <2>2. NoUpdateLost' /\ WaitPubMeansStored'
      BY <1>2, Zenon DEF ClosePublish, TypeOK, OrderInv, NoUpdateLost, WaitPubMeansStored
    <2> QED BY <2>1, <2>2, Zenon
  <1>3. CASE CloseSetLastpub
    <2>1. TypeOK' /\ OrderInv' /\ RunInv' /\ CloseInv' /\ AnswerInv'
      BY <1>3 DEF CloseSetLastpub, TypeOK, OrderInv, RunInv, CloseInv, AnswerInv
    <2>2. NoUpdateLost' /\ WaitPubMeansStored'
      BY <1>3, Zenon DEF CloseSetLastpub, TypeOK, CloseInv, NoUpdateLost, WaitPubMeansStored
    <2> QED BY <2>1, <2>2, Zenon
  <1> QED BY <1>1, <1>2, <1>3, Zenon

\* RepInv is inductive.
LEMMA RepInvStep == RepInv /\ [Next]_vars => RepInv'
  <1> SUFFICES ASSUME RepInv, [Next]_vars PROVE RepInv'
    BY Zenon
  <1>1. CASE UNCHANGED vars
    BY <1>1 DEF vars, RepInv, TypeOK, OrderInv, RunInv, AnswerInv, CloseInv, NoUpdateLost,
                WaitPubMeansStored
  <1> QED BY <1>1, WriterStep, RunStep, CloseStep, Zenon DEF Next

\* The inductive invariant holds in every reachable state of the republisher.
THEOREM Republishes == Spec => []RepInv
  BY RepInvInit, RepInvStep, PTL DEF Spec

\* The fields of the Republisher and the progress of its goroutines keep their
\* types; in particular no root is read, stored or refused that was not made.
THEOREM RepublisherTypes == Spec => []TypeOK
  <1>1. RepInv => TypeOK
    BY Zenon DEF RepInv
  <1> QED BY <1>1, Republishes, PTL

\* No change is forgotten, however many writers signal while Run publishes and
\* wherever Close comes in.
THEOREM NoChangeForgotten == Spec => []NoUpdateLost
  <1>1. RepInv => NoUpdateLost
    BY Zenon DEF RepInv
  <1> QED BY <1>1, Republishes, PTL

\* WaitPub returns only when the writer's change, or a later one, has been
\* stored or refused.
THEOREM WaitPubWaits == Spec => []WaitPubMeansStored
  <1>1. RepInv => WaitPubMeansStored
    BY Zenon DEF RepInv
  <1> QED BY <1>1, Republishes, PTL

\* Until Close, no write of Run's publish replaces the stored root by an older
\* one.
THEOREM StoredMonotone == Spec => StoredNeverGoesBack
  <1>1. RepInv /\ [Next]_vars => [closer = "open" => stored' >= stored]_vars
    <2> SUFFICES ASSUME RepInv, Next, closer = "open" PROVE stored' >= stored
      BY Zenon
    <2>1. CASE PutVal
      BY <2>1 DEF PutVal, RepInv, TypeOK, RunInv
    <2>2. CASE ~PutVal
      <3>1. stored' = stored
        BY <2>2, Zenon DEF Next, Run, Writer, TakeSignal, ExtendWait, Timeout, ReadVal, SetLastpub,
           Answer, RunReturns, PublishNow, SetVal, Signal, WaitPub, WaitPubReturns, Close,
           ClosePublish, CloseSetLastpub
      <3> QED BY <3>1 DEF RepInv, TypeOK
    <2> QED BY <2>1, <2>2, Zenon
  <1> QED BY <1>1, Republishes, PTL DEF Spec, StoredNeverGoesBack
=============================================================================
