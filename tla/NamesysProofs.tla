--------------------------- MODULE NamesysProofs ---------------------------
(***************************************************************************)
(* Proofs that a sequence number names one value, for any names, values,   *)
(* publishers and lifetimes, and any number of publications and restarts.  *)
(***************************************************************************)
EXTENDS Namesys, TLAPS

Entries == [value : Values, seq : Nat]

RecordSet == [name : Names, value : Values, seq : Nat, left : Nat]

CallSet == [name : Names, value : Values, left : Nat, prev : Entries \cup {Nothing},
            at : {"lock", "search", "write", "wait"}]

PutSet == [rec : RecordSet, by : Threads \cup {Nothing}, at : {"check", "store", "fix"}]

\* a store of the DHT has records under their own name
IsStore(f) ==
  /\ f \in [Names -> RecordSet \cup {Nothing}]
  /\ \A n \in Names : f[n] # Nothing => f[n].name = n

TypesInv ==
  /\ published \in [Names -> Entries \cup {Nothing}]
  /\ call \in [Threads -> CallSet \cup {Nothing}]
  /\ puts \subseteq PutSet
  /\ IsStore(local) /\ IsStore(remote)
  /\ flight \subseteq RecordSet
  /\ unseen \subseteq Names

\* The owner of the mutex is the one thread that reads and writes the entry, and
\* what it has read is still there.
MutexInv ==
  \A t \in Threads :
    /\ At(t, "search") \/ At(t, "write") => mu = t
    /\ At(t, "search") => published[call[t].name] = Nothing
    /\ At(t, "write") /\ published[call[t].name] # Nothing => call[t].prev = published[call[t].name]

\* A thread that found no entry knows what the network has.
SearchInv ==
  \A t \in Threads :
    At(t, "write") /\ published[call[t].name] = Nothing /\ call[t].name \notin unseen =>
      ~Overlooked(call[t].name, call[t].prev)

NamesInv == TypesInv /\ MutexInv /\ SearchInv /\ SeqNamesValue /\ PublishedNewest

\* Every valid record after a step repeats one that was there before it.
Repeats(n) ==
  \A r \in Records(n)' : \E s \in Records(n) : s.seq = r.seq /\ s.value = r.value

-----------------------------------------------------------------------------
\* The fields of a new record.
LEMMA NewRecord ==
  ASSUME NEW n \in Names, NEW v \in Values, NEW s \in Nat, NEW l \in Nat
  PROVE  /\ Record(n, v, s, l) \in RecordSet
         /\ Record(n, v, s, l).name = n /\ Record(n, v, s, l).value = v
         /\ Record(n, v, s, l).seq = s /\ Record(n, v, s, l).left = l
BY Zenon DEF Record, RecordSet

\* The fields of a new entry; an entry is never Nothing.
LEMMA NewEntry ==
  ASSUME NEW v \in Values, NEW s \in Nat
  PROVE  /\ Entry(v, s) \in Entries /\ Entry(v, s) # Nothing
         /\ Entry(v, s).value = v /\ Entry(v, s).seq = s
BY NothingIsNoEntry DEF Entry, Entries

\* Time changes nothing of a record but what it has left.
LEMMA AgedRecord ==
  ASSUME NEW r \in RecordSet
  PROVE  /\ Aged(r) \in RecordSet
         /\ Aged(r).name = r.name /\ Aged(r).value = r.value /\ Aged(r).seq = r.seq
         /\ Aged(r).left > 0 => r.left > 0
BY DEF Aged, Older, RecordSet

\* Time changes nothing of a call but what its record will have left.
LEMMA AgedCall ==
  ASSUME NEW c \in CallSet
  PROVE  /\ Aged(c) \in CallSet
         /\ Aged(c).name = c.name /\ Aged(c).value = c.value
         /\ Aged(c).prev = c.prev /\ Aged(c).at = c.at
BY DEF Aged, Older, CallSet

\* Where a valid record can be.
LEMMA WhereRecords ==
  ASSUME NEW n
  PROVE  \A r : r \in Records(n) <=>
           /\ r.name = n /\ r.left > 0
           /\ \/ r # Nothing /\ (r = local[n] \/ r = remote[n])
              \/ r \in flight
              \/ \E p \in puts : r = p.rec
BY Zenon DEF Records, Some

\* An invariant about records survives a step that only repeats them.
LEMMA RepeatsKeep ==
  ASSUME SearchInv, SeqNamesValue, PublishedNewest, TypesInv,
         published' = published, unseen' = unseen,
         \A n \in Names : Repeats(n),
         \A t \in Threads : At(t, "write")' =>
           At(t, "write") /\ call'[t].name = call[t].name /\ call'[t].prev = call[t].prev,
         call \in [Threads -> CallSet \cup {Nothing}]
  PROVE  SearchInv' /\ SeqNamesValue' /\ PublishedNewest'
<1>1. SeqNamesValue'
  BY DEF SeqNamesValue, Repeats
<1>2. PublishedNewest'
  BY DEF PublishedNewest, Repeats
<1>3. SearchInv'
  <2> SUFFICES ASSUME NEW t \in Threads, At(t, "write")',
                      (published[call[t].name] = Nothing)', (call[t].name \notin unseen)',
                      Overlooked(call[t].name, call[t].prev)'
               PROVE  FALSE
    BY Zenon DEF SearchInv
  <2>1. At(t, "write") /\ call'[t].name = call[t].name /\ call'[t].prev = call[t].prev
    BY Zenon
  <2>2. call[t].name \in Names
    BY <2>1, Zenon DEF At, CallSet
  <2>3. PICK n \in Names, e \in {call[t].prev} : n = call[t].name /\ e = call[t].prev
    BY <2>2, Zenon
  <2>4. Overlooked(n, e)'
    BY <2>1, <2>3 DEF Overlooked, Records
  <2>5. PICK r \in Records(n)' :
          e = Nothing \/ r.seq > e.seq \/ (r.seq = e.seq /\ r.value # e.value)
    BY <2>4, Zenon DEF Overlooked
  <2>6. PICK s \in Records(n) : s.seq = r.seq /\ s.value = r.value
    BY <2>5, Zenon DEF Repeats
  <2>7. Overlooked(n, e)
    BY <2>5, <2>6, Zenon DEF Overlooked
  <2> QED BY <2>1, <2>3, <2>7, Zenon DEF SearchInv
<1> QED BY <1>1, <1>2, <1>3, Zenon

-----------------------------------------------------------------------------
\* A node that starts with what an earlier run left keeps the invariant.
LEMMA NamesInit == Init => NamesInv
<1> SUFFICES ASSUME Init PROVE NamesInv
  BY Zenon
<1> USE NamesysAssumption
<1>1. PICK known \in SUBSET Names :
        published = [n \in Names |-> IF n \in known THEN Entry(First, 0) ELSE Nothing]
  BY Zenon DEF Init
<1>2. PICK there \in SUBSET Names :
        remote = [n \in Names |-> IF n \in there THEN Valid(Record(n, First, 0, RecordLifetime))
                                                ELSE Nothing]
  BY Zenon DEF Init
<1>3. First \in Values /\ 0 \in Nat /\ RecordLifetime \in Nat
  BY Zenon
<1>4. \A n \in Names : /\ Record(n, First, 0, RecordLifetime) \in RecordSet
                       /\ Record(n, First, 0, RecordLifetime).name = n
                       /\ Record(n, First, 0, RecordLifetime).value = First
                       /\ Record(n, First, 0, RecordLifetime).seq = 0
  BY <1>3, NewRecord
<1>5. /\ Entry(First, 0) \in Entries
      /\ Entry(First, 0).value = First /\ Entry(First, 0).seq = 0
  BY <1>3, NewEntry, Zenon
<1>6. TypesInv
  <2>1. published \in [Names -> Entries \cup {Nothing}]
    BY <1>1, <1>5, Zenon
  <2>2. IsStore(remote)
    BY <1>2, <1>4, Zenon DEF IsStore, Valid
  <2>3. IsStore(local)
    BY Zenon DEF Init, IsStore
  <2> QED BY <2>1, <2>2, <2>3, Zenon DEF Init, TypesInv
<1>7. MutexInv /\ SearchInv
  BY Zenon DEF Init, MutexInv, SearchInv, At
<1>8. \A n \in Names : \A r \in Records(n) : r.seq = 0 /\ r.value = First
  <2> SUFFICES ASSUME NEW n \in Names, NEW r \in Records(n)
               PROVE  r.seq = 0 /\ r.value = First
    BY Zenon
  <2>1. r = remote[n] /\ r # Nothing
    BY WhereRecords, Zenon DEF Init
  <2> QED BY <2>1, <1>2, <1>4, Zenon DEF Valid
<1>9. SeqNamesValue
  BY <1>8, Zenon DEF SeqNamesValue
<1>10. PublishedNewest
  BY <1>1, <1>5, <1>8, Zenon DEF PublishedNewest
<1> QED BY <1>6, <1>7, <1>9, <1>10, Zenon DEF NamesInv

-----------------------------------------------------------------------------
(* Types.                                                                  *)

\* A call that returns leaves the other calls alone.
LEMMA ReturnTypes ==
  ASSUME TypesInv, NEW t, NEW ok, Return(t, ok)
  PROVE  call' \in [Threads -> CallSet \cup {Nothing}]
BY Zenon DEF Return, TypesInv

\* So does a PutValue that ends.
LEMMA PutEndsTypes ==
  ASSUME TypesInv, NEW p \in puts, NEW ok, PutEnds(p, ok)
  PROVE  call' \in [Threads -> CallSet \cup {Nothing}] /\ puts' \subseteq puts
BY ReturnTypes, Zenon DEF PutEnds, TypesInv

\* A store that takes a record under its name is a store.
LEMMA StoreTypes ==
  ASSUME NEW f, IsStore(f), NEW r \in RecordSet
  PROVE  IsStore([f EXCEPT ![r.name] = Valid(r)])
BY Zenon DEF IsStore, Valid, RecordSet

\* The next sequence number is a number.
LEMMA NextSeqType ==
  ASSUME TypesInv, NEW t \in Threads, At(t, "write")
  PROVE  NextSeq(t) \in Nat
BY DEF TypesInv, At, NextSeq, CallSet, Entries

\* The steps of PublishWithEOL keep the types.
LEMMA ThreadTypes ==
  ASSUME TypesInv, NEW t \in Threads, Thread(t)
  PROVE  TypesInv'
<1>1. CASE GetPublished(t)
  <2>1. call[t] \in CallSet
    BY <1>1, Zenon DEF GetPublished, At, TypesInv
  <2>2. published[call[t].name] \in Entries \cup {Nothing}
    BY <2>1, Zenon DEF TypesInv, CallSet
  <2>3. call' \in [Threads -> CallSet \cup {Nothing}]
    BY <1>1, <2>1, <2>2 DEF GetPublished, Read, Goto, Return, TypesInv, CallSet
  <2> QED BY <1>1, <2>3, Zenon DEF GetPublished, TypesInv, stores
<1>2. CASE SearchPublished(t)
  <2>1. call[t] \in CallSet
    BY <1>2, Zenon DEF SearchPublished, At, TypesInv
  <2>2. PICK seen \in {Nothing} \cup {Entry(r.value, r.seq) : r \in Found(call[t].name)} :
          /\ call' = [call EXCEPT ![t].prev = seen, ![t].at = "write"]
          /\ unseen' = IF Overlooked(call[t].name, seen) THEN unseen \cup {call[t].name} ELSE unseen
    BY <1>2, Zenon DEF SearchPublished
  <2>3. call[t].name \in Names
    BY <2>1, Zenon DEF CallSet
  <2>4. \A r \in Found(call[t].name) : r.value \in Values /\ r.seq \in Nat
    BY <2>3 DEF Found, Some, TypesInv, IsStore, RecordSet
  <2>5. seen \in Entries \cup {Nothing}
    BY <2>4, NewEntry
  <2>6. call' \in [Threads -> CallSet \cup {Nothing}]
    BY <2>1, <2>2, <2>5, Zenon DEF TypesInv, CallSet
  <2>7. unseen' \subseteq Names
    BY <2>2, <2>3, Zenon DEF TypesInv
  <2> QED BY <1>2, <2>6, <2>7, Zenon DEF SearchPublished, TypesInv, stores
<1>3. CASE WriteRecord(t)
  <2>1. call[t] \in CallSet /\ NextSeq(t) \in Nat
    BY <1>3, NextSeqType, Zenon DEF WriteRecord, At, TypesInv
  <2>2. call[t].name \in Names /\ call[t].value \in Values /\ call[t].left \in Nat
    BY <2>1, Zenon DEF CallSet
  <2> DEFINE new == Record(call[t].name, call[t].value, NextSeq(t), call[t].left)
  <2>3. new \in RecordSet /\ new.value = call[t].value /\ new.seq = NextSeq(t)
    BY <2>1, <2>2, NewRecord
  <2>4. Entry(new.value, new.seq) \in Entries
    BY <2>1, <2>2, <2>3, NewEntry, Zenon
  <2>5. published' \in [Names -> Entries \cup {Nothing}]
    BY <1>3, <2>4, Zenon DEF WriteRecord, TypesInv
  <2>6. [rec |-> new, by |-> t, at |-> "check"] \in PutSet
    BY <2>3, Zenon DEF PutSet
  <2>7. puts' \subseteq PutSet
    BY <1>3, <2>6, Zenon DEF WriteRecord, TypesInv
  <2>8. call' \in [Threads -> CallSet \cup {Nothing}]
    BY <1>3, <2>1, Zenon DEF WriteRecord, Goto, TypesInv, CallSet
  <2> QED BY <1>3, <2>5, <2>7, <2>8, Zenon DEF WriteRecord, TypesInv, stores
<1>4. CASE WriteFails(t)
  BY <1>4, ReturnTypes, Zenon DEF WriteFails, TypesInv, stores
<1>5. CASE GiveUp(t)
  <2>1. \A p \in PutSet : [p EXCEPT !.by = Nothing] \in PutSet
    BY Zenon DEF PutSet
  <2>2. puts' \subseteq PutSet
    BY <1>5, <2>1, Zenon DEF GiveUp, TypesInv
  <2> QED BY <1>5, <2>2, ReturnTypes, Zenon DEF GiveUp, TypesInv, stores
<1> QED BY <1>1, <1>2, <1>3, <1>4, <1>5, Zenon DEF Thread

\* The steps of PutValue keep the types.
LEMMA PutTypes ==
  ASSUME TypesInv, NEW p \in puts, Put(p)
  PROVE  TypesInv'
<1>1. p \in PutSet /\ p.rec \in RecordSet
  BY Zenon DEF TypesInv, PutSet
<1>2. CASE PutAllowed(p)
  <2>1. [p EXCEPT !.at = "store"] \in PutSet
    BY <1>1, Zenon DEF PutSet
  <2> QED BY <1>2, <2>1, Zenon DEF PutAllowed, TypesInv, stores
<1>3. CASE PutRefused(p)
  BY <1>3, PutEndsTypes, Zenon DEF PutRefused, TypesInv, stores
<1>4. CASE PutStored(p)
  <2>1. flight' \subseteq RecordSet
    BY <1>1, <1>4, Zenon DEF PutStored, Some, Valid, TypesInv
  <2>2. IsStore(local')
    BY <1>1, <1>4, StoreTypes, Zenon DEF PutStored, TypesInv
  <2> QED BY <1>4, <2>1, <2>2, PutEndsTypes, Zenon DEF PutStored, TypesInv, IsStore
<1>5. CASE PutFails(p)
  <2>1. IsStore(local')
    BY <1>1, <1>5, StoreTypes DEF PutFails, TypesInv
  <2> QED BY <1>5, <2>1, PutEndsTypes, Zenon DEF PutFails, TypesInv, IsStore
<1>6. CASE FixLocal(p)
  <2>1. IsStore(local')
    BY <1>1, <1>6, StoreTypes, Zenon DEF FixLocal, TypesInv
  <2> QED BY <1>6, <2>1, Zenon DEF FixLocal, TypesInv, IsStore
<1> QED BY <1>2, <1>3, <1>4, <1>5, <1>6, Zenon DEF Put

\* A store stays one when time passes.
LEMMA AgedStoreTypes ==
  ASSUME NEW f, IsStore(f)
  PROVE  IsStore(AgedStore(f))
<1>1. \A n \in Names : f[n] # Nothing =>
        Aged(f[n]) \in RecordSet /\ Aged(f[n]).name = n
  BY AgedRecord, Zenon DEF IsStore
<1> QED BY <1>1, Zenon DEF IsStore, AgedStore, Valid

\* Time keeps the types.
LEMMA TickTypes ==
  ASSUME TypesInv, Tick
  PROVE  TypesInv'
<1>1. IsStore(local') /\ IsStore(remote')
  BY AgedStoreTypes, Zenon DEF Tick, TypesInv
<1>2. flight' \subseteq RecordSet
  BY AgedRecord, Zenon DEF Tick, TypesInv, Some, Valid
<1>3. puts' \subseteq PutSet
  <2>1. \A p \in PutSet : [p EXCEPT !.rec = Aged(@)] \in PutSet
    BY AgedRecord, Zenon DEF PutSet
  <2> QED BY <2>1, Zenon DEF Tick, TypesInv
<1>4. call' \in [Threads -> CallSet \cup {Nothing}]
  BY AgedCall, Zenon DEF Tick, TypesInv
<1> QED BY <1>1, <1>2, <1>3, <1>4, Zenon DEF Tick, TypesInv, IsStore

\* What another search finds is a record of that name.
LEMMA FoundTypes ==
  ASSUME TypesInv, NEW n \in Names, NEW r \in Found(n)
  PROVE  r \in RecordSet /\ r.name = n /\ r # Nothing /\ (r = local[n] \/ r = remote[n])
BY DEF Found, Some, TypesInv, IsStore

\* Every step keeps the types.
LEMMA TypesNext ==
  ASSUME TypesInv, Next
  PROVE  TypesInv'
<1>1. ASSUME NEW t \in Publishers, NEW n \in Names, NEW v \in Values, NEW l \in Lifetimes,
             Publish(t, n, v, l)
      PROVE  TypesInv'
  <2>1. Call(n, v, l, "lock") \in CallSet
    BY NamesysAssumption, Zenon DEF Call, CallSet
  <2>2. call' \in [Threads -> CallSet \cup {Nothing}]
    BY <1>1, <2>1, Zenon DEF Publish, TypesInv
  <2> QED BY <1>1, <2>2, Zenon DEF Publish, TypesInv, stores
<1>2. ASSUME NEW t \in Threads, Thread(t) PROVE TypesInv'
  BY <1>2, ThreadTypes, Zenon
<1>3. ASSUME NEW p \in puts, Put(p) PROVE TypesInv'
  BY <1>3, PutTypes, Zenon
<1>4. ASSUME NEW r \in flight, Deliver(r) \/ Lose(r) PROVE TypesInv'
  <2>1. r \in RecordSet
    BY Zenon DEF TypesInv
  <2>2. IsStore(remote')
    BY <1>4, <2>1 DEF Deliver, Lose, IsStore, TypesInv, RecordSet
  <2> QED BY <1>4, <2>2, Zenon DEF Deliver, Lose, TypesInv, IsStore
<1>5. ASSUME NEW n \in Names, PeerForgets(n) \/ NodeForgets(n) \/ PeerCorrects(n) PROVE TypesInv'
  <2>1. IsStore(remote') /\ IsStore(local')
    BY <1>5, Zenon DEF PeerForgets, NodeForgets, PeerCorrects, TypesInv, IsStore
  <2> QED BY <1>5, <2>1, Zenon DEF PeerForgets, NodeForgets, PeerCorrects, TypesInv, IsStore
<1>6. ASSUME NEW n \in Names, RepublishEntry(n) PROVE TypesInv'
  <2>1. published[n] \in Entries
    BY <1>6, Zenon DEF RepublishEntry, TypesInv
  <2>2. Call(n, published[n].value, RecordLifetime, "lock") \in CallSet
    BY <2>1, NamesysAssumption, Zenon DEF Call, CallSet, Entries
  <2>3. call' \in [Threads -> CallSet \cup {Nothing}]
    BY <1>6, <2>2, Zenon DEF RepublishEntry, TypesInv
  <2> QED BY <1>6, <2>3, Zenon DEF RepublishEntry, TypesInv, stores
<1>7. ASSUME NEW n \in Names, RepublishNothing(n) \/ RepublishFails(n) PROVE TypesInv'
  BY <1>7, Zenon DEF RepublishNothing, RepublishFails, TypesInv, stores
<1>8. ASSUME NEW n \in Names, Resolve(n) PROVE TypesInv'
  <2>1. PICK r \in Found(n) : Corrected(n, r)
    BY <1>8, Zenon DEF Resolve
  <2>2. [rec |-> r, by |-> Nothing, at |-> "fix"] \in PutSet /\ r \in RecordSet
    BY <2>1, FoundTypes, Zenon DEF PutSet
  <2>3. puts' \subseteq PutSet /\ flight' \subseteq RecordSet
    BY <2>1, <2>2, Zenon DEF Corrected, TypesInv
  <2> QED BY <1>8, <2>3, Zenon DEF Resolve, TypesInv
<1>9. CASE RoundStarts
  BY <1>9, Zenon DEF RoundStarts, TypesInv, stores
<1>10. CASE Tick
  BY <1>10, TickTypes, Zenon
<1>11. CASE Crash
  BY <1>11, Zenon DEF Crash, TypesInv, stores
<1> QED BY <1>1, <1>2, <1>3, <1>4, <1>5, <1>6, <1>7, <1>8, <1>9, <1>10, <1>11, Zenon DEF Next

-----------------------------------------------------------------------------
(* Records are only repeated, except by a write of the entry.              *)

\* PutValue brings no record that was not there before.
LEMMA PutRepeats ==
  ASSUME TypesInv, NEW p \in puts, Put(p), NEW n \in Names
  PROVE  Repeats(n)
<1> SUFFICES ASSUME NEW r \in Records(n)'
             PROVE  \E s \in Records(n) : s.seq = r.seq /\ s.value = r.value
  BY Zenon DEF Repeats
<1>1. /\ r.name = n /\ r.left > 0
      /\ \/ r # Nothing /\ (r = local'[n] \/ r = remote'[n])
         \/ r \in flight'
         \/ \E q \in puts' : r = q.rec
  BY Zenon DEF Records, Some
<1>2. \A q \in puts' : \E o \in puts : q.rec = o.rec
  <2>1. puts' \subseteq puts \/ puts' = (puts \ {p}) \cup {[p EXCEPT !.at = "store"]}
    BY Zenon DEF Put, PutAllowed, PutRefused, PutStored, PutFails, FixLocal, PutEnds
  <2>2. [p EXCEPT !.at = "store"].rec = p.rec
    BY Zenon DEF TypesInv, PutSet
  <2> QED BY <2>1, <2>2, Zenon
<1>3. remote' = remote
  BY Zenon DEF Put, PutAllowed, PutRefused, PutStored, PutFails, FixLocal, stores
<1>4. local' = local \/ local' = [local EXCEPT ![p.rec.name] = Valid(p.rec)]
  BY Zenon DEF Put, PutAllowed, PutRefused, PutStored, PutFails, FixLocal, stores
<1>5. flight' \subseteq flight \cup Some({Valid(p.rec)})
  BY Zenon DEF Put, PutAllowed, PutRefused, PutStored, PutFails, FixLocal, stores
<1>6. r \in Records(n)
  <2>1. CASE \E q \in puts' : r = q.rec
    BY <1>1, <1>2, <2>1, WhereRecords
  <2>2. CASE r # Nothing /\ r = remote'[n]
    BY <1>1, <1>3, <2>2, WhereRecords, Zenon
  <2>3. CASE r \in flight'
    BY <1>1, <1>5, <2>3, WhereRecords, Zenon DEF Some, Valid
  <2>4. CASE r # Nothing /\ r = local'[n]
    <3>1. r = local[n] \/ r = p.rec
      BY <1>4, <2>4, Zenon DEF Valid, TypesInv, IsStore
    <3> QED BY <1>1, <2>4, <3>1, WhereRecords, Zenon
  <2> QED BY <1>1, <2>1, <2>2, <2>3, <2>4, Zenon
<1> QED BY <1>6, Zenon

\* Neither does time.
LEMMA TickRepeats ==
  ASSUME TypesInv, Tick, NEW n \in Names
  PROVE  Repeats(n)
<1> SUFFICES ASSUME NEW r \in Records(n)'
             PROVE  \E s \in Records(n) : s.seq = r.seq /\ s.value = r.value
  BY Zenon DEF Repeats
<1>1. /\ r.name = n /\ r.left > 0
      /\ \/ r # Nothing /\ (r = local'[n] \/ r = remote'[n])
         \/ r \in flight'
         \/ \E q \in puts' : r = q.rec
  BY Zenon DEF Records, Some
<1>2. PICK s : /\ s \in RecordSet /\ r = Aged(s)
               /\ \/ s # Nothing /\ (s = local[n] \/ s = remote[n])
                  \/ s \in flight
                  \/ \E q \in puts : s = q.rec
  <2>1. CASE r # Nothing /\ (r = local'[n] \/ r = remote'[n])
    BY <2>1, Zenon DEF Tick, AgedStore, Valid, TypesInv, IsStore
  <2>2. CASE r \in flight'
    BY <2>2, Zenon DEF Tick, Some, Valid, TypesInv
  <2>3. CASE \E q \in puts' : r = q.rec
    <3>1. \A o \in puts : o.rec \in RecordSet /\ [o EXCEPT !.rec = Aged(@)].rec = Aged(o.rec)
      BY Zenon DEF TypesInv, PutSet
    <3> QED BY <2>3, <3>1, Zenon DEF Tick
  <2> QED BY <1>1, <2>1, <2>2, <2>3, Zenon
<1>3. s.name = n /\ s.left > 0 /\ s.seq = r.seq /\ s.value = r.value
  BY <1>1, <1>2, AgedRecord, Zenon
<1>4. s \in Records(n)
  BY <1>2, <1>3, WhereRecords, Zenon
<1> QED BY <1>3, <1>4, Zenon

\* Only WriteRecord makes a record; every other step repeats those there are.
LEMMA StepRepeats ==
  ASSUME TypesInv, Next, \A t \in Threads : ~WriteRecord(t), NEW n \in Names
  PROVE  Repeats(n)
<1>1. ASSUME UNCHANGED <<puts, stores>> PROVE Repeats(n)
  BY <1>1, Zenon DEF Repeats, Records, Some, stores
<1>2. ASSUME NEW t \in Publishers, NEW m \in Names, NEW v \in Values, NEW l \in Lifetimes,
             Publish(t, m, v, l)
      PROVE  Repeats(n)
  BY <1>1, <1>2, Zenon DEF Publish
<1>3. ASSUME NEW t \in Threads, Thread(t) PROVE Repeats(n)
  <2>1. CASE GetPublished(t) \/ SearchPublished(t) \/ WriteFails(t)
    BY <1>1, <2>1, Zenon DEF GetPublished, SearchPublished, WriteFails
  <2>2. CASE GiveUp(t)
    <3>1. \A p \in puts : [p EXCEPT !.by = Nothing].rec = p.rec
      BY Zenon DEF TypesInv, PutSet
    <3>2. {q.rec : q \in puts'} = {q.rec : q \in puts}
      BY <2>2, <3>1, ZenonT(30) DEF GiveUp
    <3> QED BY <2>2, <3>2, Zenon DEF GiveUp, Repeats, Records, Some, stores
  <2> QED BY <1>3, <2>1, <2>2, Zenon DEF Thread
<1>4. ASSUME NEW p \in puts, Put(p) PROVE Repeats(n)
  BY <1>4, PutRepeats, Zenon
<1>5. ASSUME NEW r \in flight, Deliver(r) \/ Lose(r) PROVE Repeats(n)
  <2>1. \A s \in Records(n)' : s \in Records(n)
    BY <1>5 DEF Records, Some, Deliver, Lose, TypesInv, IsStore
  <2> QED BY <2>1, Zenon DEF Repeats
<1>6. ASSUME NEW m \in Names, PeerForgets(m) \/ NodeForgets(m) \/ PeerCorrects(m) PROVE Repeats(n)
  <2>1. \A s \in Records(n)' : s \in Records(n)
    BY <1>6 DEF Records, Some, PeerForgets, NodeForgets, PeerCorrects, TypesInv, IsStore
  <2> QED BY <2>1, Zenon DEF Repeats
<1>7. ASSUME NEW m \in Names, RepublishEntry(m) \/ RepublishNothing(m) \/ RepublishFails(m)
      PROVE  Repeats(n)
  BY <1>1, <1>7, Zenon DEF RepublishEntry, RepublishNothing, RepublishFails
<1>8. ASSUME NEW m \in Names, Resolve(m) PROVE Repeats(n)
  <2>1. PICK r \in Found(m) : Corrected(m, r)
    BY <1>8, Zenon DEF Resolve
  <2>2. r # Nothing /\ (r = local[m] \/ r = remote[m]) /\ r.name = m
    BY <2>1, FoundTypes, Zenon
  <2>3. \A s \in Records(n)' : s \in Records(n)
    BY <1>8, <2>1, <2>2 DEF Resolve, Corrected, Records, Some
  <2> QED BY <2>3, Zenon DEF Repeats
<1>9. CASE RoundStarts
  BY <1>1, <1>9, Zenon DEF RoundStarts
<1>10. CASE Tick
  BY <1>10, TickRepeats, Zenon
<1>11. CASE Crash
  BY <1>11, Zenon DEF Crash, Repeats, Records, Some, stores
<1> QED BY <1>2, <1>3, <1>4, <1>5, <1>6, <1>7, <1>8, <1>9, <1>10, <1>11, Zenon DEF Next

-----------------------------------------------------------------------------
(* The owner of the mutex.                                                 *)

\* No thread gets to the search or the write, or changes what it has read.
NobodyProceeds ==
  \A t \in Threads : \A at \in {"search", "write"} :
    At(t, at)' => At(t, at) /\ call'[t].name = call[t].name /\ call'[t].prev = call[t].prev

\* A call that returns lets nobody on to the search or the write.
LEMMA ReturnProceeds ==
  ASSUME TypesInv, NEW t, NEW ok, Return(t, ok)
  PROVE  NobodyProceeds
BY Zenon DEF Return, NobodyProceeds, At, TypesInv

\* A step that begins or ends a call somewhere else.
LEMMA StepProceeds ==
  ASSUME TypesInv, Next,
         \A t \in Threads : ~GetPublished(t) /\ ~SearchPublished(t) /\ ~WriteRecord(t)
  PROVE  /\ NobodyProceeds
         /\ published' = published /\ unseen' = unseen
         /\ \/ mu' = mu
            \/ \A t \in Threads : ~At(t, "search")' /\ ~At(t, "write")'
            \/ \E u \in Threads : WriteFails(u)
<1>1. ASSUME NEW t \in Publishers, NEW m \in Names, NEW v \in Values, NEW l \in Lifetimes,
             Publish(t, m, v, l)
      PROVE  NobodyProceeds /\ UNCHANGED <<published, unseen, mu>>
  BY <1>1, Zenon DEF Publish, Call, NobodyProceeds, At, TypesInv
<1>2. ASSUME NEW t \in Threads, WriteFails(t)
      PROVE  NobodyProceeds /\ UNCHANGED <<published, unseen>>
  BY <1>2, ReturnProceeds, Zenon DEF WriteFails
<1>3. ASSUME NEW t \in Threads, GiveUp(t)
      PROVE  NobodyProceeds /\ UNCHANGED <<published, unseen, mu>>
  BY <1>3, ReturnProceeds, Zenon DEF GiveUp
<1>4. ASSUME NEW p \in puts, Put(p)
      PROVE  NobodyProceeds /\ UNCHANGED <<published, unseen, mu>>
  <2>1. UNCHANGED <<published, unseen, mu>>
    BY <1>4, Zenon DEF Put, PutAllowed, PutRefused, PutStored, PutFails, FixLocal
  <2>2. call' = call \/ \E ok \in BOOLEAN : Return(p.by, ok)
    BY <1>4, Zenon DEF Put, PutAllowed, PutRefused, PutStored, PutFails, FixLocal, PutEnds
  <2>3. call' = call => NobodyProceeds
    BY Zenon DEF NobodyProceeds, At
  <2> QED BY <2>1, <2>2, <2>3, ReturnProceeds, Zenon
<1>5. ASSUME NEW n \in Names, RepublishEntry(n)
      PROVE  NobodyProceeds /\ UNCHANGED <<published, unseen, mu>>
  BY <1>5, Zenon DEF RepublishEntry, Call, NobodyProceeds, At, TypesInv
<1>6. ASSUME \/ \E r \in flight : Deliver(r) \/ Lose(r)
             \/ \E n \in Names : \/ PeerForgets(n) \/ NodeForgets(n) \/ PeerCorrects(n)
                                \/ RepublishNothing(n) \/ RepublishFails(n) \/ Resolve(n)
             \/ RoundStarts
      PROVE  NobodyProceeds /\ UNCHANGED <<published, unseen, mu>>
  <2>1. UNCHANGED <<published, unseen, mu, call>>
    BY <1>6, Zenon DEF Deliver, Lose, PeerForgets, NodeForgets, PeerCorrects, RepublishNothing,
                RepublishFails, Resolve, RoundStarts
  <2> QED BY <2>1, Zenon DEF NobodyProceeds, At
<1>7. CASE Tick
  <2>1. NobodyProceeds
    <3> SUFFICES ASSUME NEW t \in Threads, NEW at \in {"search", "write"}, At(t, at)'
                 PROVE  At(t, at) /\ call'[t].name = call[t].name /\ call'[t].prev = call[t].prev
      BY Zenon DEF NobodyProceeds
    <3>1. call[t] # Nothing /\ call'[t] = Aged(call[t])
      BY <1>7, Zenon DEF Tick, At
    <3>2. call[t] \in CallSet
      BY <3>1, Zenon DEF TypesInv
    <3> QED BY <3>1, <3>2, AgedCall, Zenon DEF At
  <2> QED BY <1>7, <2>1, Zenon DEF Tick
<1>8. CASE Crash
  BY <1>8, Zenon DEF Crash, NobodyProceeds, At
<1> QED BY <1>1, <1>2, <1>3, <1>4, <1>5, <1>6, <1>7, <1>8, Zenon DEF Next, Thread

\* The other threads of a step of one.
LEMMA OthersStay ==
  ASSUME TypesInv, NEW t \in Threads,
         GetPublished(t) \/ SearchPublished(t) \/ WriteRecord(t) \/ WriteFails(t)
  PROVE  \A u \in Threads \ {t} : call'[u] = call[u]
BY Zenon DEF GetPublished, Read, SearchPublished, WriteRecord, WriteFails, Goto, Return, TypesInv

\* Every step keeps the mutex with the thread that reads and writes.
LEMMA MutexNext ==
  ASSUME TypesInv, MutexInv, Next
  PROVE  MutexInv'
<1> USE NamesysAssumption
<1>1. ASSUME NEW t \in Threads, GetPublished(t) PROVE MutexInv'
  <2>1. mu = Nothing /\ published' = published /\ call[t] \in CallSet
    BY <1>1, Zenon DEF GetPublished, At, TypesInv
  <2>2. \A u \in Threads \ {t} : ~At(u, "search")' /\ ~At(u, "write")'
    BY <1>1, <2>1, OthersStay, Zenon DEF MutexInv, At, Threads
  <2>3. At(t, "search")' => mu' = t /\ published[call'[t].name] = Nothing
    BY <1>1, <2>1 DEF GetPublished, Read, Goto, Return, At, TypesInv, CallSet
  <2>4. At(t, "write")' => mu' = t /\ call'[t].prev = published[call'[t].name]
    BY <1>1, <2>1 DEF GetPublished, Read, Goto, Return, At, TypesInv, CallSet
  <2> QED BY <2>1, <2>2, <2>3, <2>4, Zenon DEF MutexInv
<1>2. ASSUME NEW t \in Threads, SearchPublished(t) PROVE MutexInv'
  <2>1. mu = t /\ mu' = t /\ published' = published /\ call[t] \in CallSet
        /\ published[call[t].name] = Nothing
    BY <1>2, Zenon DEF SearchPublished, At, TypesInv, MutexInv
  <2>2. call'[t].name = call[t].name /\ call'[t].at = "write"
    BY <1>2, <2>1 DEF SearchPublished, TypesInv, CallSet
  <2>3. \A u \in Threads \ {t} : ~At(u, "search")' /\ ~At(u, "write")'
    BY <1>2, <2>1, OthersStay, Zenon DEF MutexInv, At
  <2> QED BY <2>1, <2>2, <2>3, Zenon DEF MutexInv, At
<1>3. ASSUME NEW t \in Threads, WriteRecord(t) \/ WriteFails(t) PROVE MutexInv'
  <2>1. mu = t
    BY <1>3, Zenon DEF WriteRecord, WriteFails, MutexInv
  <2>2. ~At(t, "search")' /\ ~At(t, "write")'
    BY <1>3 DEF WriteRecord, WriteFails, Goto, Return, At, TypesInv, CallSet
  <2>3. \A u \in Threads \ {t} : ~At(u, "search")' /\ ~At(u, "write")'
    BY <1>3, <2>1, OthersStay, Zenon DEF MutexInv, At
  <2> QED BY <2>2, <2>3, Zenon DEF MutexInv
<1>4. ASSUME NobodyProceeds, published' = published, mu' = mu PROVE MutexInv'
  BY <1>4, Zenon DEF NobodyProceeds, MutexInv
<1>5. ASSUME \A t \in Threads : ~At(t, "search")' /\ ~At(t, "write")' PROVE MutexInv'
  BY <1>5, Zenon DEF MutexInv
<1> QED BY <1>1, <1>2, <1>3, <1>4, <1>5, StepProceeds, Zenon

-----------------------------------------------------------------------------
(* Sequence numbers.                                                       *)

\* The read of the entry under the mutex changes no order of records.
LEMMA ReadKeeps ==
  ASSUME NamesInv, NEW t \in Threads, GetPublished(t), \A n \in Names : Repeats(n), MutexInv'
  PROVE  SearchInv' /\ SeqNamesValue' /\ PublishedNewest'
<1>1. UNCHANGED <<published, unseen>>
  BY Zenon DEF GetPublished
<1>2. SeqNamesValue' /\ PublishedNewest'
  BY <1>1 DEF NamesInv, SeqNamesValue, PublishedNewest, Repeats
<1>3. At(t, "write")' => published'[call'[t].name] # Nothing
  <2>1. call[t] \in CallSet
    BY Zenon DEF GetPublished, At, NamesInv, TypesInv
  <2> QED BY <1>1, <2>1 DEF GetPublished, Read, Goto, Return, At, NamesInv, TypesInv, CallSet
<1>4. \A u \in Threads \ {t} : ~At(u, "write")'
  BY NamesysAssumption, OthersStay, Zenon DEF GetPublished, NamesInv, MutexInv, At, Threads
<1> QED BY <1>2, <1>3, <1>4, Zenon DEF SearchInv

\* Neither does the search of the network: what it overlooks is noted in unseen.
LEMMA SearchKeeps ==
  ASSUME NamesInv, NEW t \in Threads, SearchPublished(t)
  PROVE  SearchInv' /\ SeqNamesValue' /\ PublishedNewest'
<1>1. UNCHANGED <<published, puts, stores>> /\ unseen \subseteq unseen'
  BY Zenon DEF SearchPublished
<1>2. \A n : Records(n)' = Records(n)
  BY <1>1, Zenon DEF Records, Some, stores
<1>3. SeqNamesValue' /\ PublishedNewest'
  BY <1>1, <1>2, Zenon DEF NamesInv, SeqNamesValue, PublishedNewest
<1>4. mu = t /\ call[t] \in CallSet
  BY Zenon DEF SearchPublished, NamesInv, MutexInv, TypesInv, At
<1>5. \A u \in Threads \ {t} : ~At(u, "write")'
  BY <1>4, OthersStay, Zenon DEF NamesInv, MutexInv, At
<1>6. PICK seen :
        /\ call' = [call EXCEPT ![t].prev = seen, ![t].at = "write"]
        /\ unseen' = IF Overlooked(call[t].name, seen) THEN unseen \cup {call[t].name} ELSE unseen
  BY Zenon DEF SearchPublished
<1>7. call'[t].prev = seen /\ call'[t].name = call[t].name
  BY <1>4, <1>6, Zenon DEF NamesInv, TypesInv, CallSet
<1>8. call'[t].name \notin unseen' => ~Overlooked(call[t].name, seen)
  BY <1>6, <1>7
<1>9. Overlooked(call[t].name, call[t].prev)' => Overlooked(call[t].name, seen)
  BY <1>2, <1>7, Zenon DEF Overlooked
<1> QED BY <1>3, <1>5, <1>8, <1>9, Zenon DEF SearchInv

\* The write of the next record keeps the order of sequence numbers.
LEMMA WriteKeeps ==
  ASSUME NamesInv, NEW t \in Threads, WriteRecord(t)
  PROVE  SearchInv' /\ SeqNamesValue' /\ PublishedNewest'
<1>1. /\ call[t] \in CallSet /\ NextSeq(t) \in Nat /\ mu = t
      /\ call[t].name \in Names /\ call[t].value \in Values /\ call[t].left \in Nat
      /\ call[t].prev \in Entries \cup {Nothing}
  BY NextSeqType, Zenon DEF WriteRecord, At, NamesInv, TypesInv, MutexInv, CallSet
<1>2. PICK m \in Names, v \in Values, s \in Nat, l \in Nat, e \in Entries \cup {Nothing} :
        m = call[t].name /\ v = call[t].value /\ s = NextSeq(t) /\ l = call[t].left /\ e = call[t].prev
  BY <1>1, Zenon
<1>3. PICK new : new = Record(m, v, s, l)
  BY Zenon
<1>4. new.name = m /\ new.value = v /\ new.seq = s /\ new.left = l
  BY <1>3, NewRecord
<1>5. /\ published' = [published EXCEPT ![m] = Entry(v, s)]
      /\ puts' = puts \cup {[rec |-> new, by |-> t, at |-> "check"]}
      /\ UNCHANGED <<stores, unseen>>
  BY <1>2, <1>3, <1>4, Zenon DEF WriteRecord
<1>6. \A n \in Names : \A r \in Records(n)' : r \in Records(n) \/ (n = m /\ r = new)
  <2>1. \A p \in puts' : p \in puts \/ p.rec = new
    BY <1>5
  <2>2. UNCHANGED <<local, remote, flight>>
    BY <1>5, Zenon DEF stores
  <2> QED BY <1>4, <2>1, <2>2, Zenon DEF Records
<1>7. m \notin unseen => \A r \in Records(m) : r.seq < s \/ (r.seq = s /\ r.value = v)
  <2> SUFFICES ASSUME m \notin unseen, NEW r \in Records(m)
               PROVE  r.seq < s \/ (r.seq = s /\ r.value = v)
    BY Zenon
  <2>1. r.seq \in Nat
    BY WhereRecords DEF NamesInv, TypesInv, IsStore, RecordSet, PutSet
  <2>2. e # Nothing
        /\ (r.seq < e.seq \/ (r.seq = e.seq /\ r.value = e.value))
    <3>1. CASE published[m] # Nothing
      BY <1>2, <3>1 DEF NamesInv, MutexInv, PublishedNewest, WriteRecord
    <3>2. CASE published[m] = Nothing
      <4>1. ~Overlooked(m, e)
        BY <1>2, <3>2, Zenon DEF NamesInv, SearchInv, WriteRecord
      <4>2. e # Nothing
        BY <4>1, Zenon DEF Overlooked
      <4> QED BY <2>1, <4>1, <4>2 DEF Overlooked, Entries
    <3> QED BY <3>1, <3>2, Zenon
  <2>3. s = IF e.value = v THEN e.seq ELSE e.seq + 1
    BY <1>2, <2>2, Zenon DEF NextSeq
  <2>4. e.seq \in Nat
    BY <2>2, Zenon DEF Entries
  <2> QED BY <2>1, <2>2, <2>3, <2>4
<1>8. SeqNamesValue'
  <2> SUFFICES ASSUME NEW n \in Names, n \notin unseen, NEW q \in Records(n)', NEW r \in Records(n)',
                      q.seq = r.seq
               PROVE  q.value = r.value
    BY <1>5, Zenon DEF SeqNamesValue
  <2>1. CASE q \in Records(n) /\ r \in Records(n)
    BY <2>1, Zenon DEF NamesInv, SeqNamesValue
  <2>2. CASE n = m /\ q = new
    BY <1>4, <1>6, <1>7, <2>2
  <2>3. CASE n = m /\ r = new
    BY <1>4, <1>6, <1>7, <2>3
  <2> QED BY <1>6, <2>1, <2>2, <2>3, Zenon
<1>9. PublishedNewest'
  <2>1. /\ published'[m] = Entry(v, s) /\ \A n \in Names \ {m} : published'[n] = published[n]
        /\ Entry(v, s).value = v /\ Entry(v, s).seq = s
    BY <1>5, NewEntry, Zenon DEF NamesInv, TypesInv
  <2> QED BY <1>4, <1>5, <1>6, <1>7, <2>1 DEF NamesInv, PublishedNewest
<1>10. SearchInv'
  <2>1. ~At(t, "write")'
    BY <1>1, Zenon DEF WriteRecord, Goto, At, NamesInv, TypesInv, CallSet
  <2>2. \A u \in Threads \ {t} : ~At(u, "write")'
    BY <1>1, OthersStay, Zenon DEF NamesInv, MutexInv, At
  <2> QED BY <2>1, <2>2, Zenon DEF SearchInv
<1> QED BY <1>8, <1>9, <1>10, Zenon

\* Every step keeps the invariant.
LEMMA NamesNext == NamesInv /\ [Next]_vars => NamesInv'
<1> SUFFICES ASSUME NamesInv, [Next]_vars PROVE NamesInv'
  BY Zenon
<1>1. CASE Next
  <2>1. TypesInv' /\ MutexInv'
    BY <1>1, TypesNext, MutexNext, Zenon DEF NamesInv
  <2>2. CASE \E t \in Threads : WriteRecord(t)
    BY <2>1, <2>2, WriteKeeps, Zenon DEF NamesInv
  <2>3. CASE \E t \in Threads : SearchPublished(t)
    BY <2>1, <2>3, SearchKeeps, Zenon DEF NamesInv
  <2>4. CASE \E t \in Threads : GetPublished(t)
    <3>1. \A t \in Threads : GetPublished(t) => \A u \in Threads : ~WriteRecord(u)
      BY NamesysAssumption, Zenon DEF GetPublished, WriteRecord, NamesInv, MutexInv, Threads
    <3>2. \A n \in Names : Repeats(n)
      BY <1>1, <2>4, <3>1, StepRepeats, Zenon DEF NamesInv
    <3> QED BY <2>1, <2>4, <3>2, ReadKeeps, Zenon DEF NamesInv
  <2>5. CASE \A t \in Threads : ~GetPublished(t) /\ ~SearchPublished(t) /\ ~WriteRecord(t)
    <3>1. NobodyProceeds /\ UNCHANGED <<published, unseen>>
      BY <1>1, <2>5, StepProceeds, Zenon DEF NamesInv
    <3>2. \A n \in Names : Repeats(n)
      BY <1>1, <2>5, StepRepeats, Zenon DEF NamesInv
    <3> QED BY <2>1, <3>1, <3>2, RepeatsKeep, Zenon DEF NamesInv, NobodyProceeds, TypesInv
  <2> QED BY <2>2, <2>3, <2>4, <2>5, Zenon
<1>2. CASE UNCHANGED vars
  <2>1. UNCHANGED <<published, mu, call, puts, local, remote, flight, unseen>>
    BY <1>2, Zenon DEF vars, stores
  <2>2. TypesInv'
    BY <2>1, Zenon DEF NamesInv, TypesInv, IsStore
  <2>3. NobodyProceeds
    BY <2>1, Zenon DEF NobodyProceeds, At
  <2>4. MutexInv'
    BY <2>1, Zenon DEF NamesInv, MutexInv, At
  <2>5. \A n \in Names : Repeats(n)
    BY <2>1, Zenon DEF Repeats, Records
  <2> QED BY <2>1, <2>2, <2>3, <2>4, <2>5, RepeatsKeep, Zenon DEF NamesInv, NobodyProceeds, TypesInv
<1> QED BY <1>1, <1>2, Zenon

\* The invariant always holds.
LEMMA NamesAlways == Spec => []NamesInv
BY NamesInit, NamesNext, PTL DEF Spec

\* IpnsPublisher.mu does what it is for: whatever publishers, the republisher,
\* searches, lost and late messages and restarts do, no two valid records of a
\* name share a sequence number and differ in their values.
THEOREM OneValuePerSequenceNumber == Spec => []SeqNamesValue
<1>1. NamesInv => SeqNamesValue
  BY Zenon DEF NamesInv
<1> QED BY <1>1, NamesAlways, PTL

\* The entry updateRecord leaves in the datastore is never behind a record that
\* this node or the network has.
THEOREM EntryIsNewest == Spec => []PublishedNewest
<1>1. NamesInv => PublishedNewest
  BY Zenon DEF NamesInv
<1> QED BY <1>1, NamesAlways, PTL

-----------------------------------------------------------------------------
(* Where the calls, the mutex and the records are.                         *)

Live(f) == \A n \in Names : f[n] # Nothing => f[n].left > 0

\* No store and no message has a record that has expired.
LiveInv == Live(local) /\ Live(remote) /\ \A r \in flight : r.left > 0

\* A PutValue that has a caller is the only one it waits for.
WaitInv ==
  /\ \A p \in puts : p.by # Nothing => At(p.by, "wait")
  /\ \A p, q \in puts : p.by = q.by /\ p.by # Nothing => p = q

OwnerInv == mu \in Threads \cup {Nothing} /\ todo \subseteq Names

\* A store that takes over a valid record
LEMMA StoreLive ==
  ASSUME NEW f, Live(f), f \in [Names -> RecordSet \cup {Nothing}], NEW m \in Names,
         NEW r, r # Nothing => r.left > 0
  PROVE  Live([f EXCEPT ![m] = r])
BY Zenon DEF Live

\* What is left in a store after a tick has not expired.
LEMMA AgedLive == ASSUME NEW f PROVE Live(AgedStore(f))
BY Zenon DEF Live, AgedStore, Valid

\* No step stores or sends an expired record.
LEMMA LiveNext ==
  ASSUME TypesInv, LiveInv, Next
  PROVE  LiveInv'
<1>0. local \in [Names -> RecordSet \cup {Nothing}] /\ remote \in [Names -> RecordSet \cup {Nothing}]
  BY Zenon DEF TypesInv, IsStore
<1>1. CASE UNCHANGED stores
  BY <1>1, Zenon DEF stores, LiveInv, Live
<1>2. ASSUME NEW p \in puts, PutStored(p) \/ PutFails(p) \/ FixLocal(p) PROVE LiveInv'
  <2>1. p.rec.name \in Names /\ (Valid(p.rec) # Nothing => Valid(p.rec).left > 0)
    BY Zenon DEF TypesInv, PutSet, RecordSet, Valid
  <2>2. Live(local)'
    <3>1. local' = local \/ local' = [local EXCEPT ![p.rec.name] = Valid(p.rec)]
      BY <1>2, Zenon DEF PutStored, PutFails, FixLocal
    <3> QED BY <1>0, <2>1, <3>1, StoreLive, Zenon DEF LiveInv, Live
  <2>3. remote' = remote /\ \A r \in flight' : r \in flight \/ r \in Some({Valid(p.rec)})
    BY <1>2, Zenon DEF PutStored, PutFails, FixLocal
  <2> QED BY <2>1, <2>2, <2>3, Zenon DEF LiveInv, Live, Some
<1>3. ASSUME NEW r \in flight, Deliver(r) \/ Lose(r) PROVE LiveInv'
  <2>1. r.name \in Names /\ r.left > 0
    BY Zenon DEF TypesInv, RecordSet, LiveInv
  <2>2. /\ remote' = remote \/ remote' = [remote EXCEPT ![r.name] = r]
        /\ local' = local /\ flight' \subseteq flight
    BY <1>3, Zenon DEF Deliver, Lose
  <2>3. Live(remote)'
    BY <1>0, <2>1, <2>2, StoreLive, Zenon DEF LiveInv, Live
  <2> QED BY <2>2, <2>3, Zenon DEF LiveInv, Live
<1>4. ASSUME NEW n \in Names, PeerForgets(n) \/ NodeForgets(n) \/ PeerCorrects(n) PROVE LiveInv'
  BY <1>0, <1>4, Zenon DEF PeerForgets, NodeForgets, PeerCorrects, LiveInv, Live
<1>5. ASSUME NEW n \in Names, Resolve(n) PROVE LiveInv'
  <2>1. PICK r \in Found(n) : Corrected(n, r)
    BY <1>5, Zenon DEF Resolve
  <2>2. r.left > 0
    BY <2>1, FoundTypes DEF LiveInv, Live
  <2>3. flight' \subseteq flight \cup {r}
    BY <2>1, Zenon DEF Corrected
  <2> QED BY <1>5, <2>2, <2>3, Zenon DEF Resolve, LiveInv, Live
<1>6. CASE Tick
  <2>1. Live(local)' /\ Live(remote)'
    BY <1>6, AgedLive, Zenon DEF Tick, Live
  <2>2. \A r \in flight' : r.left > 0
    BY <1>6, Zenon DEF Tick, Some, Valid
  <2> QED BY <2>1, <2>2, Zenon DEF LiveInv
<1>7. ASSUME \/ \E t \in Publishers, n \in Names, v \in Values, l \in Lifetimes : Publish(t, n, v, l)
             \/ \E t \in Threads : Thread(t)
             \/ \E p \in puts : PutAllowed(p) \/ PutRefused(p)
             \/ \E n \in Names : RepublishEntry(n) \/ RepublishNothing(n) \/ RepublishFails(n)
             \/ RoundStarts \/ Crash
      PROVE  UNCHANGED stores
  BY <1>7, Zenon
  DEF Publish, Thread, GetPublished, SearchPublished, WriteRecord, WriteFails, GiveUp, PutAllowed,
      PutRefused, RepublishEntry, RepublishNothing, RepublishFails, RoundStarts, Crash
<1> QED BY <1>1, <1>2, <1>3, <1>4, <1>5, <1>6, <1>7, Zenon DEF Next, Put

\* A call is not Nothing.
LEMMA CallIsThere == \A c \in CallSet : c # Nothing
BY NothingIsNoCall, Zenon DEF CallSet, Entries

\* Who waits goes on waiting when its call does not change and no call of
\* PutValue comes that it has to wait for.
LEMMA WaitersStay ==
  ASSUME WaitInv,
         \A p \in puts' : p.by = Nothing \/ (p \in puts /\ call'[p.by] = call[p.by])
  PROVE  WaitInv'
BY Zenon DEF WaitInv, At

\* A PutValue that ends returns to its own caller only.
LEMMA PutEndsWaits ==
  ASSUME TypesInv, WaitInv, NEW p \in puts, NEW ok, PutEnds(p, ok)
  PROVE  WaitInv'
<1>1. puts' = puts \ {p}
  BY Zenon DEF PutEnds
<1>2. ASSUME NEW q \in puts', q.by # Nothing PROVE call'[q.by] = call[q.by]
  <2>1. CASE p.by = Nothing
    BY <2>1, Zenon DEF PutEnds
  <2>2. CASE p.by # Nothing
    <3>1. q.by # p.by
      BY <1>1, <1>2, <2>2, Zenon DEF WaitInv
    <3>2. call' = [call EXCEPT ![p.by] = Nothing]
      BY <2>2, Zenon DEF PutEnds, Return
    <3>3. q.by \in Threads
      BY <1>1, <1>2, Zenon DEF TypesInv, PutSet
    <3> QED BY <3>1, <3>2, <3>3, Zenon DEF TypesInv
  <2> QED BY <2>1, <2>2, Zenon
<1> QED BY <1>1, <1>2, WaitersStay, Zenon

\* Every step keeps callers and their PutValue together.
LEMMA WaitNext ==
  ASSUME TypesInv, WaitInv, Next
  PROVE  WaitInv'
<1>0. \A p \in puts : p.by # Nothing => p.by \in Threads /\ At(p.by, "wait")
  BY Zenon DEF TypesInv, PutSet, WaitInv
<1>1. CASE UNCHANGED <<puts, call>>
  BY <1>1, WaitersStay, Zenon
<1>2. ASSUME NEW t \in Threads, ~At(t, "wait"), puts' = puts,
             \A u \in Threads \ {t} : call'[u] = call[u]
      PROVE  WaitInv'
  BY <1>0, <1>2, WaitersStay, Zenon
<1>3. ASSUME NEW t \in Publishers, NEW n \in Names, NEW v \in Values, NEW l \in Lifetimes,
             Publish(t, n, v, l)
      PROVE  WaitInv'
  <2>1. t \in Threads /\ ~At(t, "wait")
    BY <1>3, Zenon DEF Publish, At, Threads
  <2>2. puts' = puts /\ \A u \in Threads \ {t} : call'[u] = call[u]
    BY <1>3, Zenon DEF Publish, TypesInv
  <2> QED BY <1>2, <2>1, <2>2, Zenon
<1>4. ASSUME NEW t \in Threads, GetPublished(t) \/ SearchPublished(t) \/ WriteFails(t)
      PROVE  WaitInv'
  <2>1. ~At(t, "wait") /\ puts' = puts
    BY <1>4, Zenon DEF GetPublished, SearchPublished, WriteFails, At
  <2> QED BY <1>2, <1>4, <2>1, OthersStay, Zenon
<1>5. ASSUME NEW t \in Threads, WriteRecord(t) PROVE WaitInv'
  <2>1. At(t, "write") /\ call[t] \in CallSet
    BY <1>5, Zenon DEF WriteRecord, At, TypesInv
  <2>2. \A p \in puts : p.by # t \/ p.by = Nothing
    BY <1>0, <2>1, Zenon DEF At
  <2>3. At(t, "wait")'
    <3>1. call'[t] = [call[t] EXCEPT !.at = "wait"]
      BY <1>5, Zenon DEF WriteRecord, Goto, TypesInv
    <3>2. [call[t] EXCEPT !.at = "wait"] \in CallSet /\ [call[t] EXCEPT !.at = "wait"].at = "wait"
      BY <2>1, Zenon DEF CallSet
    <3>3. call'[t] # Nothing
      BY <3>1, <3>2, CallIsThere, Zenon
    <3> QED BY <3>1, <3>2, <3>3, Zenon DEF At
  <2>4. \A u \in Threads \ {t} : call'[u] = call[u]
    BY <1>5, OthersStay, Zenon
  <2> DEFINE new == Record(call[t].name, call[t].value, NextSeq(t), call[t].left)
             q == [rec |-> new, by |-> t, at |-> "check"]
  <2>5. puts' = puts \cup {q} /\ q.by = t
    BY <1>5, Zenon DEF WriteRecord
  <2> HIDE DEF q
  <2>6. ASSUME NEW p \in puts', p.by # Nothing PROVE At(p.by, "wait")'
    BY <1>0, <2>2, <2>3, <2>4, <2>5, <2>6, Zenon DEF At
  <2>7. ASSUME NEW p \in puts', NEW r \in puts', p.by = r.by, p.by # Nothing PROVE p = r
    BY <2>2, <2>5, <2>7, Zenon DEF WaitInv
  <2> QED BY <2>6, <2>7, Zenon DEF WaitInv
<1>6. ASSUME NEW t \in Threads, GiveUp(t) PROVE WaitInv'
  <2>1. \A p \in puts : [p EXCEPT !.by = Nothing].by = Nothing
    BY Zenon DEF TypesInv, PutSet
  <2>2. puts' = {IF p.by = t THEN [p EXCEPT !.by = Nothing] ELSE p : p \in puts}
    BY <1>6, Zenon DEF GiveUp
  <2>3. \A q \in puts' : q.by = Nothing \/ (q \in puts /\ q.by # t)
    BY <2>1, <2>2, Zenon
  <2>4. \A u \in Threads \ {t} : call'[u] = call[u]
    BY <1>6, Zenon DEF GiveUp, Return, TypesInv
  <2> QED BY <1>0, <2>3, <2>4, WaitersStay, Zenon
<1>7. ASSUME NEW p \in puts, PutAllowed(p) PROVE WaitInv'
  <2> DEFINE q == [p EXCEPT !.at = "store"]
  <2>0. q.by = p.by
    BY Zenon DEF TypesInv, PutSet
  <2>1. puts' = (puts \ {p}) \cup {q}
    BY <1>7, Zenon DEF PutAllowed
  <2> HIDE DEF q
  <2>2. call' = call
    BY <1>7, Zenon DEF PutAllowed
  <2> QED BY <2>0, <2>1, <2>2, Zenon DEF WaitInv, At
<1>8. ASSUME NEW p \in puts, PutRefused(p) \/ PutStored(p) \/ PutFails(p) PROVE WaitInv'
  BY <1>8, PutEndsWaits, Zenon DEF PutRefused, PutStored, PutFails
<1>9. ASSUME NEW p \in puts, FixLocal(p) PROVE WaitInv'
  BY <1>9, WaitersStay, Zenon DEF FixLocal
<1>10. ASSUME NEW n \in Names, RepublishEntry(n) PROVE WaitInv'
  <2>1. Republisher \in Threads /\ ~At(Republisher, "wait")
    BY <1>10, Zenon DEF RepublishEntry, IsNext, At, Threads
  <2>2. puts' = puts /\ \A u \in Threads \ {Republisher} : call'[u] = call[u]
    BY <1>10, Zenon DEF RepublishEntry, TypesInv
  <2> QED BY <1>2, <2>1, <2>2, Zenon
<1>11. ASSUME NEW n \in Names, Resolve(n) PROVE WaitInv'
  <2>1. call' = call /\ \A p \in puts' : p \in puts \/ p.by = Nothing
    BY <1>11 DEF Resolve, Corrected
  <2> QED BY <2>1, WaitersStay, Zenon
<1>12. CASE Tick
  <2>1. \A p \in puts : [p EXCEPT !.rec = Aged(@)].by = p.by
    BY Zenon DEF TypesInv, PutSet
  <2>2. puts' = {[p EXCEPT !.rec = Aged(@)] : p \in puts}
    BY <1>12, Zenon DEF Tick
  <2>3. ASSUME NEW t \in Threads, At(t, "wait") PROVE At(t, "wait")'
    <3>1. call[t] # Nothing /\ call[t] \in CallSet
      BY <2>3, Zenon DEF At, TypesInv
    <3>2. call'[t] = Aged(call[t])
      BY <1>12, <3>1, Zenon DEF Tick
    <3>3. Aged(call[t]).at = "wait"
      BY <2>3, <3>1, AgedCall, Zenon DEF At
    <3>4. call'[t] # Nothing
      BY <3>1, <3>2, AgedCall, CallIsThere, Zenon
    <3> QED BY <3>2, <3>3, <3>4, Zenon DEF At
  <2>4. ASSUME NEW q \in puts', q.by # Nothing PROVE At(q.by, "wait")'
    BY <1>0, <2>1, <2>2, <2>3, <2>4, Zenon
  <2>5. ASSUME NEW q \in puts', NEW r \in puts', q.by = r.by, q.by # Nothing PROVE q = r
    <3>1. PICK p \in puts : q = [p EXCEPT !.rec = Aged(@)]
      BY <2>2, Zenon
    <3>2. PICK o \in puts : r = [o EXCEPT !.rec = Aged(@)]
      BY <2>2, Zenon
    <3>3. p.by = o.by /\ p.by # Nothing
      BY <2>1, <2>5, <3>1, <3>2, Zenon
    <3> QED BY <3>1, <3>2, <3>3, Zenon DEF WaitInv
  <2> QED BY <2>4, <2>5, Zenon DEF WaitInv
<1>13. CASE Crash
  BY <1>13, WaitersStay, Zenon DEF Crash
<1>14. ASSUME \/ \E r \in flight : Deliver(r) \/ Lose(r)
              \/ \E n \in Names : \/ PeerForgets(n) \/ NodeForgets(n) \/ PeerCorrects(n)
                                 \/ RepublishNothing(n) \/ RepublishFails(n)
              \/ RoundStarts
       PROVE  UNCHANGED <<puts, call>>
  BY <1>14, Zenon
  DEF Deliver, Lose, PeerForgets, NodeForgets, PeerCorrects, RepublishNothing, RepublishFails,
      RoundStarts
<1> QED
  BY <1>1, <1>3, <1>4, <1>5, <1>6, <1>7, <1>8, <1>9, <1>10, <1>11, <1>12, <1>13, <1>14, Zenon
  DEF Next, Thread, Put

\* Every step leaves the mutex with a thread or with nobody.
LEMMA OwnerNext ==
  ASSUME OwnerInv, Next
  PROVE  OwnerInv'
<1>1. ASSUME NEW t \in Threads, Thread(t) PROVE OwnerInv'
  BY <1>1, Zenon
  DEF Thread, GetPublished, Read, SearchPublished, WriteRecord, WriteFails, GiveUp, Return, OwnerInv
<1>2. ASSUME NEW p \in puts, Put(p) PROVE OwnerInv'
  <2>1. mu' = mu
    BY <1>2, Zenon DEF Put, PutAllowed, PutRefused, PutStored, PutFails, FixLocal
  <2>2. todo' = todo \/ todo' = {}
    BY <1>2, Zenon
    DEF Put, PutAllowed, PutRefused, PutStored, PutFails, FixLocal, PutEnds, Return
  <2> QED BY <2>1, <2>2, Zenon DEF OwnerInv
<1>3. ASSUME \/ \E t \in Publishers, n \in Names, v \in Values, l \in Lifetimes : Publish(t, n, v, l)
             \/ \E r \in flight : Deliver(r) \/ Lose(r)
             \/ \E n \in Names : PeerForgets(n) \/ NodeForgets(n) \/ PeerCorrects(n) \/ Resolve(n)
             \/ Tick
      PROVE  UNCHANGED <<mu, todo>>
  BY <1>3, Zenon
  DEF Publish, Deliver, Lose, PeerForgets, NodeForgets, PeerCorrects, Resolve, Tick
<1>4. ASSUME \/ \E n \in Names : RepublishEntry(n) \/ RepublishNothing(n) \/ RepublishFails(n)
             \/ RoundStarts \/ Crash
      PROVE  OwnerInv'
  BY <1>4, Zenon DEF RepublishEntry, RepublishNothing, RepublishFails, RoundStarts, Crash, OwnerInv
<1> QED BY <1>1, <1>2, <1>3, <1>4, Zenon DEF Next, OwnerInv

\* The publisher, the republisher and the records have their types: in
\* particular a PutValue that has a caller has one that waits for it, and no
\* expired record is stored or sent.
THEOREM NamesysTypes == Spec => []TypeOK
<1> DEFINE Inv == TypesInv /\ LiveInv /\ WaitInv /\ OwnerInv
<1>1. Init => Inv
  <2> SUFFICES ASSUME Init PROVE LiveInv /\ WaitInv /\ OwnerInv
    BY NamesInit, Zenon DEF NamesInv
  <2>1. LiveInv
    BY Zenon DEF Init, LiveInv, Live, Valid
  <2> QED BY <2>1, Zenon DEF Init, WaitInv, OwnerInv
<1>2. Inv /\ [Next]_vars => Inv'
  <2> SUFFICES ASSUME Inv, [Next]_vars PROVE Inv'
    BY Zenon
  <2>1. CASE Next
    BY <2>1, TypesNext, LiveNext, WaitNext, OwnerNext, Zenon
  <2>2. CASE UNCHANGED vars
    BY <2>2, Zenon DEF vars, stores, TypesInv, IsStore, LiveInv, Live, WaitInv, At, OwnerInv
  <2> QED BY <2>1, <2>2, Zenon
<1>3. Inv => TypeOK
  <2> SUFFICES ASSUME Inv PROVE TypeOK
    BY Zenon
  <2>1. \A n \in Names : published[n] # Nothing => published[n].value \in Values /\ published[n].seq \in Nat
    BY Zenon DEF TypesInv, Entries
  <2>2. \A n \in Names : \A r \in Some({local[n], remote[n]}) : r.name = n /\ r.left > 0
    BY DEF TypesInv, IsStore, LiveInv, Live, Some
  <2>3. \A r \in flight : r.name \in Names /\ r.value \in Values /\ r.left > 0
    BY Zenon DEF TypesInv, RecordSet, LiveInv
  <2> QED BY <2>1, <2>2, <2>3, Zenon DEF TypeOK, TypesInv, WaitInv, OwnerInv
<1> QED BY <1>1, <1>2, <1>3, PTL DEF Spec
=============================================================================
