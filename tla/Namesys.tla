------------------------------ MODULE Namesys ------------------------------
(***************************************************************************)
(* Publishing IPNS names: namesys/publisher.go, the republisher of         *)
(* namesys/republisher/repub.go, and the part of go-libp2p-kad-dht that    *)
(* stores the records on this node and on a peer.                          *)
(*                                                                         *)
(* Time is counted in ticks, and a record carries how many it has left:    *)
(* the end of life minus now.  A record without any left fails the         *)
(* validation of every reader, so that a store that holds one holds none.  *)
(***************************************************************************)
EXTENDS Integers, FiniteSets

CONSTANTS
  Names,           \* the node's own name and those of its keystore
  Self,            \* the node's own name
  Values,          \* the paths that are published
  Publishers,      \* commands "name publish"
  Republisher,     \* the goroutine of Republisher.Run
  Lifetimes,       \* what a publisher asks for
  RecordLifetime,  \* Republisher.RecordLifetime
  First,           \* the value of the names that were published before
  MaxPublishes,    \* bound: how many publish commands are run
  MaxFlight,       \* bound: how many messages are under way
  MaxLate,         \* bound: how many PutValue calls nobody waits for
  Nothing          \* no record, no thread

ASSUME NamesysAssumption ==
  /\ Self \in Names /\ First \in Values
  /\ Republisher \notin Publishers
  /\ Nothing \notin Publishers \cup {Republisher}
  /\ Lifetimes \subseteq Nat /\ RecordLifetime \in Nat
  /\ MaxPublishes \in Nat /\ MaxFlight \in Nat /\ MaxLate \in Nat

ASSUME NothingIsNoEntry == Nothing \notin [value : Values, seq : Nat]

ASSUME NothingIsNoCall ==
  Nothing \notin [name : Names, value : Values, left : Nat,
                  prev : [value : Values, seq : Nat] \cup {Nothing},
                  at : {"lock", "search", "write", "wait"}]

Threads == Publishers \cup {Republisher}

VARIABLES
  published,  \* the datastore's entry under IpnsDsKey, by name
  mu,         \* the owner of IpnsPublisher.mu
  call,       \* the PublishWithEOL each thread is in
  todo,       \* the names the republisher has still to do in this round
  puts,       \* the running calls of the routing's PutValue
  local,      \* this node's record store of the DHT
  remote,     \* the record store of the peer closest to the name
  flight,     \* the records on their way to that peer
  unseen,     \* names that were published without regard to a record of the network
  publishes   \* how many publish commands have been run

stores == <<local, remote, flight>>
vars == <<published, mu, call, todo, puts, stores, unseen, publishes>>

\* no record, or no call
Some(s) == s \ {Nothing}

\* PutValue calls whose caller has returned
Late == {p \in puts : p.by = Nothing}

Entry(v, s) == [value |-> v, seq |-> s]

Record(n, v, s, l) == [name |-> n, value |-> v, seq |-> s, left |-> l]

\* the record as a reader will see it
Valid(r) == IF r.left > 0 THEN r ELSE Nothing

\* the records of a name that are still valid, wherever they are
Records(n) ==
  {r \in Some({local[n], remote[n]}) \cup flight \cup {p.rec : p \in puts} :
     r.name = n /\ r.left > 0}

\* The node starts: it has published some names before, and the peer has the
\* record of some.  A name only the peer has was published from another
\* repository with the same key.
Init ==
  /\ mu = Nothing
  /\ call = [t \in Threads |-> Nothing]
  /\ todo = {} /\ puts = {} /\ flight = {} /\ unseen = {}
  /\ local = [n \in Names |-> Nothing]
  /\ \E known \in SUBSET Names :
       published = [n \in Names |-> IF n \in known THEN Entry(First, 0) ELSE Nothing]
  /\ \E there \in SUBSET Names :
       remote = [n \in Names |-> IF n \in there THEN Valid(Record(n, First, 0, RecordLifetime))
                                               ELSE Nothing]
  /\ publishes = 0

-----------------------------------------------------------------------------
(* The order of records: the sequence number, then the end of life, then   *)
(* the bytes.  Ends of life in the same tick may be in either order.       *)

MayReplace(new, old) ==
  old # Nothing => new.seq > old.seq \/ (new.seq = old.seq /\ new.left >= old.left)

\* What a search of the DHT can find: the node's own record is always among
\* the answers, the peer may not answer in time.
Found(n) ==
  {r \in Some({local[n], remote[n]}) :
     local[n] # Nothing => r = local[n] \/ MayReplace(r, local[n])}

\* A search that had two different answers sends the better one to the place
\* of the other.  It puts it into the node's own store whatever is there by then.
Corrected(n, r) ==
  \/ /\ r = local[n] \/ local[n] = Nothing
     /\ UNCHANGED <<flight, puts>>
  \/ /\ r = local[n] /\ remote[n] \notin {Nothing, r} /\ MayReplace(r, remote[n])
     /\ Cardinality(flight) < MaxFlight
     /\ flight' = flight \cup {r}
     /\ UNCHANGED puts
  \/ /\ r # local[n] /\ local[n] # Nothing
     /\ Cardinality(Late) < MaxLate
     /\ puts' = puts \cup {[rec |-> r, by |-> Nothing, at |-> "fix"]}
     /\ UNCHANGED flight

-----------------------------------------------------------------------------
(* PublishWithEOL.                                                         *)

Call(n, v, l, at) == [name |-> n, value |-> v, left |-> l, prev |-> Nothing, at |-> at]

At(t, at) == call[t] # Nothing /\ call[t].at = at

Goto(t, at) == call' = [call EXCEPT ![t].at = at]

\* The call returns; an error ends the republisher's round.
Return(t, ok) ==
  /\ call' = [call EXCEPT ![t] = Nothing]
  /\ todo' = IF t = Republisher /\ ~ok THEN {} ELSE todo

\* "ipfs name publish"
Publish(t, n, v, l) ==
  /\ call[t] = Nothing /\ publishes < MaxPublishes
  /\ publishes' = publishes + 1
  /\ call' = [call EXCEPT ![t] = Call(n, v, l, "lock")]
  /\ UNCHANGED <<published, mu, todo, puts, stores, unseen>>

\* What GetPublished finds in the datastore: an entry, none, or an error.
Read(t, held) ==
  LET was == published[call[t].name] IN
    \/ /\ was # Nothing
       /\ call' = [call EXCEPT ![t].prev = was, ![t].at = "write"]
       /\ mu' = held /\ UNCHANGED todo
    \/ was = Nothing /\ Goto(t, "search") /\ mu' = held /\ UNCHANGED todo
    \/ Return(t, FALSE) /\ UNCHANGED mu

\* A mistake: the mutex is not taken.
GetPublishedUnlocked(t) ==
  /\ At(t, "lock")
  /\ Read(t, mu)
  /\ UNCHANGED <<published, puts, stores, unseen, publishes>>

\* Nobody writes the datastore's entry while the mutex is held.
GetPublished(t) ==
  /\ At(t, "lock") /\ mu = Nothing
  /\ Read(t, t)
  /\ UNCHANGED <<published, puts, stores, unseen, publishes>>

\* Whether the network has a record that the publisher takes no account of.
Overlooked(n, seen) ==
  \E r \in Records(n) :
    seen = Nothing \/ r.seq > seen.seq \/ (r.seq = seen.seq /\ r.value # seen.value)

\* Without an entry GetPublished asks the network.  An error of that search is no error.
SearchPublished(t) ==
  /\ At(t, "search")
  /\ \E seen \in {Nothing} \cup {Entry(r.value, r.seq) : r \in Found(call[t].name)} :
       /\ call' = [call EXCEPT ![t].prev = seen, ![t].at = "write"]
       /\ unseen' = IF Overlooked(call[t].name, seen) THEN unseen \cup {call[t].name} ELSE unseen
  /\ UNCHANGED <<published, mu, todo, puts, stores, publishes>>

\* A mistake: a changed value keeps the sequence number.
NextSeqSame(t) == IF call[t].prev = Nothing THEN 0 ELSE call[t].prev.seq

NextSeq(t) ==
  IF call[t].prev = Nothing THEN 0
  ELSE IF call[t].prev.value = call[t].value THEN call[t].prev.seq
  ELSE call[t].prev.seq + 1

\* updateRecord's Put, the release of the mutex, and the start of PutValue
WriteRecord(t) ==
  LET n == call[t].name
      new == Record(n, call[t].value, NextSeq(t), call[t].left)
  IN /\ At(t, "write")
     /\ published' = [published EXCEPT ![n] = Entry(new.value, new.seq)]
     /\ mu' = Nothing
     /\ puts' = puts \cup {[rec |-> new, by |-> t, at |-> "check"]}
     /\ Goto(t, "wait")
     /\ UNCHANGED <<todo, stores, unseen, publishes>>

WriteFails(t) ==
  /\ At(t, "write")
  /\ mu' = Nothing
  /\ Return(t, FALSE)
  /\ UNCHANGED <<published, puts, stores, unseen, publishes>>

\* A mistake: the PutValue nobody waits for still answers its caller.
GiveUpAttached(t) ==
  /\ At(t, "wait") /\ Cardinality(Late) < MaxLate
  /\ Return(t, FALSE)
  /\ UNCHANGED <<published, mu, puts, stores, unseen, publishes>>

\* PutRecordToRouting returns before the record's PutValue does: the public
\* key could not be published, or the caller's context has ended.
GiveUp(t) ==
  /\ At(t, "wait") /\ Cardinality(Late) < MaxLate
  /\ Return(t, FALSE)
  /\ puts' = {IF p.by = t THEN [p EXCEPT !.by = Nothing] ELSE p : p \in puts}
  /\ UNCHANGED <<published, mu, stores, unseen, publishes>>

-----------------------------------------------------------------------------
(* PutValue of the DHT.  It reads the node's own record and writes it      *)
(* later, and other calls may come between.                                *)

\* PutValue returns, to its caller if that still waits
PutEnds(p, ok) ==
  /\ puts' = puts \ {p}
  /\ IF p.by = Nothing THEN UNCHANGED <<call, todo>> ELSE Return(p.by, ok)

PutAllowed(p) ==
  /\ p.at = "check" /\ p.rec.left > 0
  /\ MayReplace(p.rec, local[p.rec.name])
  /\ puts' = (puts \ {p}) \cup {[p EXCEPT !.at = "store"]}
  /\ UNCHANGED <<published, mu, call, todo, stores, unseen, publishes>>

\* The record has expired, the node's own one is newer, or the datastore fails.
PutRefused(p) ==
  /\ p.at = "check"
  /\ PutEnds(p, FALSE)
  /\ UNCHANGED <<published, mu, stores, unseen, publishes>>

\* putLocal, and the messages to the closest peers, whose errors are only logged
PutStored(p) ==
  /\ p.at = "store" /\ Cardinality(flight) < MaxFlight
  /\ local' = [local EXCEPT ![p.rec.name] = Valid(p.rec)]
  /\ flight' = flight \cup Some({Valid(p.rec)})
  /\ PutEnds(p, TRUE)
  /\ UNCHANGED <<published, mu, remote, unseen, publishes>>

\* putLocal fails, or it succeeds and no peers are found.
PutFails(p) ==
  /\ p.at = "store"
  /\ \/ local' = local
     \/ local' = [local EXCEPT ![p.rec.name] = Valid(p.rec)]
  /\ PutEnds(p, FALSE)
  /\ UNCHANGED <<published, mu, remote, flight, unseen, publishes>>

\* SearchValue corrects the node's own record, whatever that is by now.
FixLocal(p) ==
  /\ p.at = "fix"
  /\ local' = [local EXCEPT ![p.rec.name] = Valid(p.rec)]
  /\ puts' = puts \ {p}
  /\ UNCHANGED <<published, mu, call, todo, remote, flight, unseen, publishes>>

-----------------------------------------------------------------------------
(* The peer and the network between.                                       *)

\* handlePutValue stores a record that is not older than the one it has.
Deliver(r) ==
  /\ r \in flight
  /\ MayReplace(r, remote[r.name])
  /\ flight' = flight \ {r}
  /\ remote' = [remote EXCEPT ![r.name] = r]
  /\ UNCHANGED <<published, mu, call, todo, puts, local, unseen, publishes>>

\* The message is lost, or it arrives and is refused.
Lose(r) ==
  /\ r \in flight
  /\ flight' = flight \ {r}
  /\ UNCHANGED <<published, mu, call, todo, puts, local, remote, unseen, publishes>>

\* The peer leaves, or drops the record at MaxRecordAge.
PeerForgets(n) ==
  /\ remote[n] # Nothing
  /\ remote' = [remote EXCEPT ![n] = Nothing]
  /\ UNCHANGED <<published, mu, call, todo, puts, local, flight, unseen, publishes>>

\* A query makes this node drop its record at MaxRecordAge, or one that a
\* correction stored without the time of receipt.
NodeForgets(n) ==
  /\ local[n] # Nothing
  /\ local' = [local EXCEPT ![n] = Nothing]
  /\ UNCHANGED <<published, mu, call, todo, puts, remote, flight, unseen, publishes>>

\* Another node's search found this node's record to be the worse one.
PeerCorrects(n) ==
  /\ remote[n] \notin {Nothing, local[n]} /\ MayReplace(remote[n], local[n])
  /\ local' = [local EXCEPT ![n] = remote[n]]
  /\ UNCHANGED <<published, mu, call, todo, puts, remote, flight, unseen, publishes>>

-----------------------------------------------------------------------------
(* The republisher: one round over all names, its own name first.          *)

\* A mistake: the node's own name is left out.
RoundStartsKeystore ==
  /\ todo = {} /\ call[Republisher] = Nothing
  /\ todo' = Names \ {Self}
  /\ UNCHANGED <<published, mu, call, puts, stores, unseen, publishes>>

RoundStarts ==
  /\ todo = {} /\ call[Republisher] = Nothing
  /\ todo' = Names
  /\ UNCHANGED <<published, mu, call, puts, stores, unseen, publishes>>

IsNext(n) == n \in todo /\ (Self \in todo => n = Self) /\ call[Republisher] = Nothing

\* getLastVal reads the datastore without the mutex: it finds an entry, or
\* none, or fails, which ends the round.
RepublishEntry(n) ==
  /\ IsNext(n) /\ published[n] # Nothing
  /\ todo' = todo \ {n}
  /\ call' = [call EXCEPT ![Republisher] = Call(n, published[n].value, RecordLifetime, "lock")]
  /\ UNCHANGED <<published, mu, puts, stores, unseen, publishes>>

RepublishNothing(n) ==
  /\ IsNext(n) /\ published[n] = Nothing
  /\ todo' = todo \ {n}
  /\ UNCHANGED <<published, mu, call, puts, stores, unseen, publishes>>

RepublishFails(n) ==
  /\ IsNext(n)
  /\ todo' = {}
  /\ UNCHANGED <<published, mu, call, puts, stores, unseen, publishes>>

-----------------------------------------------------------------------------
(* A command that resolves a name changes nothing but by its corrections.  *)

Resolve(n) ==
  /\ \E r \in Found(n) : Corrected(n, r)
  /\ UNCHANGED <<published, mu, call, todo, local, remote, unseen, publishes>>

-----------------------------------------------------------------------------
Older(l) == IF l > 0 THEN l - 1 ELSE 0

Aged(r) == [r EXCEPT !.left = Older(@)]

\* a store after a tick
AgedStore(f) == [n \in Names |-> IF f[n] = Nothing THEN Nothing ELSE Valid(Aged(f[n]))]

Tick ==
  /\ local' = AgedStore(local) /\ remote' = AgedStore(remote)
  /\ flight' = Some({Valid(Aged(r)) : r \in flight})
  /\ puts' = {[p EXCEPT !.rec = Aged(@)] : p \in puts}
  /\ call' = [t \in Threads |-> IF call[t] = Nothing THEN Nothing ELSE Aged(call[t])]
  /\ UNCHANGED <<published, mu, todo, unseen, publishes>>

\* The node stops and starts again with what is on its disk.
Crash ==
  /\ mu' = Nothing /\ todo' = {} /\ puts' = {}
  /\ call' = [t \in Threads |-> Nothing]
  /\ UNCHANGED <<published, stores, unseen, publishes>>

Thread(t) ==
  GetPublished(t) \/ SearchPublished(t) \/ WriteRecord(t) \/ WriteFails(t) \/ GiveUp(t)

Put(p) ==
  PutAllowed(p) \/ PutRefused(p) \/ PutStored(p) \/ PutFails(p) \/ FixLocal(p)

Next ==
  \/ \E t \in Publishers, n \in Names, v \in Values, l \in Lifetimes : Publish(t, n, v, l)
  \/ \E t \in Threads : Thread(t)
  \/ \E p \in puts : Put(p)
  \/ \E r \in flight : Deliver(r) \/ Lose(r)
  \/ \E n \in Names : PeerForgets(n) \/ NodeForgets(n) \/ PeerCorrects(n) \/ Resolve(n)
  \/ \E n \in Names : RepublishEntry(n) \/ RepublishNothing(n) \/ RepublishFails(n)
  \/ RoundStarts
  \/ Tick \/ Crash

Spec == Init /\ [][Next]_vars

\* The steps by which the republisher brings a name to the peer, each in time.
Timely(n) == call[Republisher] # Nothing /\ call[Republisher].name = n /\ call[Republisher].left > 0

Own(n) == {p \in puts : p.by = Republisher /\ p.rec.name = n /\ p.rec.left > 0}

\* The timers expire and time passes.  The disk and the network do not fail
\* forever: a step of the republisher that can be taken again and again is
\* taken, in spite of errors, and a message that is sent again and again arrives.
FairSpec ==
  /\ Spec /\ WF_vars(RoundStarts) /\ WF_vars(Tick)
  /\ \A t \in Threads : WF_vars(Thread(t))
  /\ WF_vars(\E p \in puts : Put(p))
  /\ \A n \in Names :
       /\ SF_vars(RepublishEntry(n) \/ RepublishNothing(n))
       /\ SF_vars(Timely(n) /\ GetPublished(Republisher) /\ call'[Republisher] # Nothing)
       /\ SF_vars(Timely(n) /\ WriteRecord(Republisher))
       /\ SF_vars(\E p \in Own(n) : PutAllowed(p))
       /\ SF_vars(\E p \in Own(n) : PutStored(p))
       /\ SF_vars(\E r \in flight : r.name = n /\ Deliver(r))

-----------------------------------------------------------------------------
TypeOK ==
  /\ \A n \in Names :
       /\ published[n] # Nothing => published[n].value \in Values /\ published[n].seq \in Nat
       /\ \A r \in Some({local[n], remote[n]}) : r.name = n /\ r.left > 0
  /\ mu \in Threads \cup {Nothing}
  /\ todo \subseteq Names /\ unseen \subseteq Names
  /\ \A p \in puts : p.by # Nothing => At(p.by, "wait")
  /\ \A r \in flight : r.name \in Names /\ r.value \in Values /\ r.left > 0

\* "Used to ensure we assign IPNS records *sequential* sequence numbers"
\* (IpnsPublisher.mu): of a name there are never two valid records, on this
\* node, on a peer or under way, with the same sequence number and different
\* values, however publishers, the republisher, lost and late messages and
\* restarts interleave.  A name whose existing record the search did not find
\* is excepted.
SeqNamesValue ==
  \A n \in Names \ unseen : \A r, s \in Records(n) : r.seq = s.seq => r.value = s.value

\* The entry in the datastore is the newest: no record that is still valid has a
\* higher sequence number, or the same one and another value.
PublishedNewest ==
  \A n \in Names \ unseen :
    published[n] # Nothing =>
      \A r \in Records(n) :
        r.seq < published[n].seq \/ (r.seq = published[n].seq /\ r.value = published[n].value)

\* The republisher's purpose: once a name has been published, the peer
\* again and again has the record the datastore has, although it forgets,
\* messages are lost, steps fail, the node restarts, and PutValue refuses the
\* republisher's record while the node holds one that lives longer.
NetworkLearns ==
  \A n \in Names :
    published[n] # Nothing ~>
      remote[n] # Nothing /\ Entry(remote[n].value, remote[n].seq) = published[n]

\* "update record with same sequence number" (republishEntry): what the
\* republisher writes has the sequence number of the entry it replaces.
RepublishKeepsSeq ==
  [][\A n \in Names :
       mu = Republisher /\ published[n] # Nothing => published'[n].seq = published[n].seq]_vars
=============================================================================
