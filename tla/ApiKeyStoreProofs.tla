-------------------------- MODULE ApiKeyStoreProofs --------------------------
(***************************************************************************)
(* Proofs about the API keys of ApiKeyStore, for any set of keys and any   *)
(* bounds: the types, the count of sessions, what is in the file when      *)
(* nothing is dirty, and what an answered administration call has promised.*)
(***************************************************************************)
EXTENDS ApiKeyStore, TLAPS

-----------------------------------------------------------------------------
(* The inductive invariant.                                                  *)

\* The first half of a record, as the worker has read it, and the whole of it.
Sizes == {0} \cup {Cardinality(s) : s \in SUBSET Stamps}
Half(k) == [done : {FALSE}, secret : 0..MaxSecrets[k], uses : 0..MaxUses[k],
            sessions : 0..MaxStreams[k], size : Sizes]
Whole(k) == [done : {TRUE}, secret : 1..MaxSecrets[k], uses : 0..MaxUses[k],
             sessions : 0..MaxStreams[k], enabled : BOOLEAN, stamps : SUBSET Stamps]

\* What TypeOK leaves out: what the worker has read, and that records and file are
\* nothing but the values of their fields.
Shapes ==
    /\ records = [k \in DOMAIN records |-> records[k]]
    /\ file = [managed |-> file.managed, keys |-> [k \in DOMAIN file.keys |-> file.keys[k]]]
    /\ DOMAIN dump \subseteq DOMAIN records
    /\ \A k \in DOMAIN dump : dump[k] \in Half(k) \cup Whole(k)
    /\ phase = "closed" => ~dirty /\ ~Dumping
    /\ DOMAIN open = Keys
    /\ admin # Nobody => admin \in DOMAIN records

\* A service that has keys asks for one.
KeysAreManaged ==
    /\ DOMAIN records # {} => managed
    /\ DOMAIN file.keys # {} => file.managed

\* What the worker has read of a record of which nothing has changed since it started.
ReadAsIs(k) ==
    dump[k].secret > 0 =>
        /\ dump[k].secret = records[k].secret
        /\ dump[k].uses = records[k].uses
        /\ dump[k].sessions = records[k].sessions
        /\ IF dump[k].done
           THEN dump[k].enabled = records[k].enabled /\ dump[k].stamps = records[k].stamps
           ELSE dump[k].size = Cardinality(records[k].stamps)

\* What is not dirty is in the file or about to be, unless the file could not be read
\* and there is nothing to write.
Clean ==
    /\ ~dirty /\ ~Dumping /\ ~unread => file = Image
    /\ ~dirty /\ Dumping => DOMAIN dump = DOMAIN records /\ \A k \in DOMAIN dump : ReadAsIs(k)
    /\ ~dirty /\ ~Dumping /\ unread => DOMAIN records = {}

\* What an answered call has left is in the records, and in what the worker has read.
AckedIsKept ==
    \A k \in DOMAIN acked \ {admin} :
        /\ k \in DOMAIN records
        /\ records[k].secret = acked[k].secret
        /\ records[k].enabled = acked[k].enabled
        /\ Dumping => /\ k \in DOMAIN dump
                      /\ dump[k].secret > 0 => dump[k].secret = acked[k].secret
                      /\ dump[k].done => dump[k].enabled = acked[k].enabled

IInv ==
    /\ TypeOK /\ Shapes /\ KeysAreManaged
    /\ SessionsNotOvercounted /\ Clean /\ AckedIsKept /\ AckedIsDurable

-----------------------------------------------------------------------------
(* Records are put, read and written whole.                                  *)

\* What administration and usage do to the store: one record is put in its place.
Puts(k, r) ==
    /\ phase = "up"
    /\ records' = [j \in DOMAIN records \cup {k} |-> IF j = k THEN r ELSE records[j]]
    /\ dirty' = TRUE
    /\ managed' \in BOOLEAN /\ managed'
    /\ \/ k \in DOMAIN records /\ r.secret = records[k].secret /\ r.enabled = records[k].enabled
          /\ admin' = admin
       \/ admin = Nobody /\ admin' = k
    /\ DOMAIN open' = Keys /\ \A j \in Keys : open'[j] \in 0..MaxStreams[j]
    /\ \A j \in DOMAIN records \ {k} : records[j].sessions <= open'[j]
    /\ r.sessions <= open'[k]
    /\ UNCHANGED <<phase, file, worker, history>>

\* A record is the values of its fields.
LEMMA RecordIsItsFields ==
  ASSUME NEW k \in Keys, NEW r \in Record(k)
  PROVE  r = [secret |-> r.secret, uses |-> r.uses, sessions |-> r.sessions,
              enabled |-> r.enabled, stamps |-> r.stamps]
  BY Zenon DEF Record

\* The same for any sets of values: one counter replaced, or what Rotate or Revoke replaces.
LEMMA FieldsReplaced ==
  ASSUME NEW A, NEW B, NEW C, NEW D, NEW E,
         NEW r \in [secret : A, uses : B, sessions : C, enabled : D, stamps : E],
         NEW a \in A, NEW c \in C, NEW d \in D, NEW e \in E
  PROVE  /\ [r EXCEPT !.sessions = c] \in [secret : A, uses : B, sessions : C, enabled : D, stamps : E]
         /\ [r EXCEPT !.secret = a, !.enabled = d, !.stamps = e]
                \in [secret : A, uses : B, sessions : C, enabled : D, stamps : E]
         /\ [r EXCEPT !.enabled = d, !.sessions = c, !.stamps = e]
                \in [secret : A, uses : B, sessions : C, enabled : D, stamps : E]
<1>1. [r EXCEPT !.sessions = c] \in [secret : A, uses : B, sessions : C, enabled : D, stamps : E]
  OBVIOUS
<1>2. [r EXCEPT !.secret = a, !.enabled = d, !.stamps = e]
        \in [secret : A, uses : B, sessions : C, enabled : D, stamps : E]
  OBVIOUS
<1>3. [r EXCEPT !.enabled = d, !.sessions = c, !.stamps = e]
        \in [secret : A, uses : B, sessions : C, enabled : D, stamps : E]
  OBVIOUS
<1> QED BY <1>1, <1>2, <1>3

\* Administration puts one record.
LEMMA AdministrationPuts ==
  ASSUME IInv, NEW k \in Keys, Create(k) \/ Rotate(k) \/ Revoke(k)
  PROVE  \E r \in Record(k) : Puts(k, r)
<1> USE DEF IInv, TypeOK, Shapes, Changed, EventLoop, Exists, KeysAreManaged, worker, history
<1>0. /\ MaxSecrets[k] \in Nat /\ MaxUses[k] \in Nat /\ MaxStreams[k] \in Nat
      /\ \A j \in DOMAIN records : records[j].sessions <= open[j]
      /\ \A j \in Keys : open[j] \in 0..MaxStreams[j]
  BY StoreAssumption DEF SessionsNotOvercounted, Create, Rotate, Revoke
<1>1. CASE Create(k)
  <2> DEFINE r == [secret |-> 1, uses |-> 0, sessions |-> 0, enabled |-> TRUE, stamps |-> {}]
  <2>1. r \in Record(k)
    BY <1>0, <1>1 DEF Create, Record
  <2>2. Puts(k, r)
    BY <1>0, <1>1 DEF Create, Puts
  <2> QED BY <2>1, <2>2
<1>2. CASE Rotate(k)
  <2> DEFINE r == [records[k] EXCEPT !.secret = @ + 1, !.enabled = TRUE,
                                     !.stamps = @ \cup {"rotated_at"}]
  <2>0. /\ records[k].secret + 1 \in 1..MaxSecrets[k]
        /\ records[k].stamps \cup {"rotated_at"} \in SUBSET Stamps
        /\ records[k] \in Record(k) /\ TRUE \in BOOLEAN
        /\ records[k].uses \in 0..MaxUses[k] /\ records[k].sessions \in 0..MaxStreams[k]
    BY <1>0, <1>2 DEF Rotate, Record, Stamps
  <2>1. r \in Record(k) /\ r.sessions = records[k].sessions
    BY <2>0, FieldsReplaced, Zenon DEF Record
  <2> HIDE DEF r
  <2>2. records' = [j \in DOMAIN records \cup {k} |-> IF j = k THEN r ELSE records[j]]
    BY <1>2 DEF Rotate, r
  <2>3. Puts(k, r)
    BY <1>0, <1>2, <2>1, <2>2 DEF Rotate, Puts
  <2> QED BY <2>1, <2>3
<1>3. CASE Revoke(k)
  <2> DEFINE r == [records[k] EXCEPT !.enabled = FALSE, !.sessions = 0,
                                     !.stamps = @ \cup {"revoked_at"}]
  <2>0. /\ records[k].secret \in 1..MaxSecrets[k] /\ records[k].uses \in 0..MaxUses[k]
        /\ records[k].stamps \cup {"revoked_at"} \in SUBSET Stamps
        /\ records[k] \in Record(k) /\ FALSE \in BOOLEAN /\ 0 \in 0..MaxStreams[k]
    BY <1>0, <1>3 DEF Revoke, Record, Stamps
  <2>1. r \in Record(k) /\ r.sessions = 0
    BY <2>0, FieldsReplaced, Zenon DEF Record
  <2> HIDE DEF r
  <2>2. records' = [j \in DOMAIN records \cup {k} |-> IF j = k THEN r ELSE records[j]]
    BY <1>3 DEF Revoke, r
  <2>3. Puts(k, r)
    BY <1>0, <1>3, <2>1, <2>2 DEF Revoke, Puts
  <2> QED BY <2>1, <2>3
<1> QED BY <1>1, <1>2, <1>3

\* Usage puts one record, of the same secret and enabled or not as before.
LEMMA UsagePuts ==
  ASSUME IInv, NEW k \in Keys, Use(k) \/ StreamOpened(k) \/ StreamClosed(k)
  PROVE  \E r \in Record(k) : Puts(k, r)
<1> USE DEF IInv, TypeOK, EventLoop, Exists, KeysAreManaged, worker, history
<1>0. /\ MaxSecrets[k] \in Nat /\ MaxUses[k] \in Nat /\ MaxStreams[k] \in Nat
      /\ DOMAIN open = Keys
      /\ \A j \in DOMAIN records : records[j].sessions <= open[j] /\ j \in Keys
      /\ \A j \in Keys : open[j] \in 0..MaxStreams[j] /\ MaxStreams[j] \in Nat
      /\ k \in DOMAIN records /\ records[k] \in Record(k) /\ managed /\ phase = "up"
  BY StoreAssumption DEF SessionsNotOvercounted, Shapes, Use, StreamOpened, StreamClosed
<1>1. CASE Use(k)
  <2> DEFINE r == [records[k] EXCEPT !.uses = @ + 1]
  <2>1. r \in Record(k) /\ r.sessions = records[k].sessions
        /\ r.secret = records[k].secret /\ r.enabled = records[k].enabled
    BY <1>0, <1>1 DEF Use, Record
  <2>2. records' = [j \in DOMAIN records \cup {k} |-> IF j = k THEN r ELSE records[j]]
    BY <1>0, <1>1 DEF Use
  <2> HIDE DEF r
  <2>3. Puts(k, r)
    BY <1>0, <1>1, <2>1, <2>2 DEF Use, Puts
  <2> QED BY <2>1, <2>3
<1>2. CASE StreamOpened(k)
  <2> DEFINE r == [records[k] EXCEPT !.sessions = @ + 1]
  <2>0. open[k] + 1 \in 0..MaxStreams[k]
    BY <1>0, <1>2 DEF StreamOpened
  <2>1. records[k].sessions \in 0..MaxStreams[k] /\ records[k].sessions + 1 \in 0..MaxStreams[k]
    BY <1>0, <2>0 DEF Record
  <2>2. r \in Record(k) /\ r.sessions = records[k].sessions + 1
        /\ r.secret = records[k].secret /\ r.enabled = records[k].enabled
    <3>1. r \in Record(k)
      <4> DEFINE c == records[k].sessions + 1
      <4>1. c \in 0..MaxStreams[k] /\ r = [records[k] EXCEPT !.sessions = c]
        BY <2>1
      <4> HIDE DEF c, r
      <4>2. /\ records[k].secret \in 1..MaxSecrets[k]
            /\ records[k].enabled \in BOOLEAN /\ records[k].stamps \in SUBSET Stamps
        BY <1>0 DEF Record
      <4>3. [records[k] EXCEPT !.sessions = c] \in Record(k)
        BY <1>0, <4>1, <4>2, FieldsReplaced DEF Record
      <4> QED BY <4>1, <4>3
    <3> QED BY <1>0, <2>1, <3>1 DEF Record
  <2>3. records' = [j \in DOMAIN records \cup {k} |-> IF j = k THEN r ELSE records[j]]
    BY <1>0, <1>2 DEF StreamOpened
  <2>4. /\ \A j \in Keys : open'[j] \in 0..MaxStreams[j]
        /\ \A j \in DOMAIN records \ {k} : records[j].sessions <= open'[j]
        /\ records[k].sessions + 1 <= open'[k]
    BY <1>0, <1>2, <2>0 DEF StreamOpened, Record
  <2> HIDE DEF r
  <2>5. Puts(k, r)
    BY <1>0, <1>2, <2>2, <2>3, <2>4 DEF StreamOpened, Puts
  <2> QED BY <2>2, <2>5
<1>3. CASE StreamClosed(k)
  <2> DEFINE r == [records[k] EXCEPT !.sessions = IF @ > 0 THEN @ - 1 ELSE 0]
  <2>0. open[k] - 1 \in 0..MaxStreams[k]
    BY <1>0, <1>3 DEF StreamClosed
  <2>1. /\ records[k].sessions \in 0..MaxStreams[k] /\ open[k] > 0
        /\ (IF records[k].sessions > 0 THEN records[k].sessions - 1 ELSE 0)
               \in 0..MaxStreams[k]
        /\ (IF records[k].sessions > 0 THEN records[k].sessions - 1 ELSE 0) <= open[k] - 1
    BY <1>0, <1>3, <2>0 DEF StreamClosed, Record
  <2>2. r \in Record(k) /\ r.sessions <= open[k] - 1
        /\ r.secret = records[k].secret /\ r.enabled = records[k].enabled
    <3>1. r \in Record(k)
      <4> DEFINE c == IF records[k].sessions > 0 THEN records[k].sessions - 1 ELSE 0
      <4>1. c \in 0..MaxStreams[k] /\ r = [records[k] EXCEPT !.sessions = c]
        BY <2>1
      <4> HIDE DEF c, r
      <4>2. /\ records[k].secret \in 1..MaxSecrets[k]
            /\ records[k].enabled \in BOOLEAN /\ records[k].stamps \in SUBSET Stamps
        BY <1>0 DEF Record
      <4>3. [records[k] EXCEPT !.sessions = c] \in Record(k)
        BY <1>0, <4>1, <4>2, FieldsReplaced DEF Record
      <4> QED BY <4>1, <4>3
    <3> QED BY <1>0, <2>1, <3>1 DEF Record
  <2>3. records' = [j \in DOMAIN records \cup {k} |-> IF j = k THEN r ELSE records[j]]
    BY <1>0, <1>3 DEF StreamClosed
  <2>4. /\ \A j \in Keys : open'[j] \in 0..MaxStreams[j]
        /\ \A j \in DOMAIN records \ {k} : records[j].sessions <= open'[j]
        /\ open'[k] = open[k] - 1
    BY <1>0, <1>3, <2>0 DEF StreamClosed, Record
  <2> HIDE DEF r
  <2>5. Puts(k, r)
    BY <1>0, <1>3, <2>2, <2>3, <2>4 DEF StreamClosed, Puts
  <2> QED BY <2>2, <2>5
<1> QED BY <1>1, <1>2, <1>3

\* A record put in its place keeps the invariant: what was clean no longer is, and what
\* has been promised is not touched, except for the key being administered.
LEMMA PutsInvariant ==
  ASSUME IInv, NEW k \in Keys, NEW r \in Record(k), Puts(k, r)
  PROVE  IInv'
<1> USE DEF Puts, worker, history
<1>0. IInv
  OBVIOUS
<1>1. TypeOK'
  BY <1>0 DEF IInv, TypeOK, Dumping
<1>2. Shapes'
  BY <1>0 DEF IInv, TypeOK, Shapes, Dumping
<1>3. KeysAreManaged'
  BY <1>0 DEF IInv, KeysAreManaged
<1>4. SessionsNotOvercounted'
  BY <1>0 DEF IInv, SessionsNotOvercounted
<1>5. Clean'
  BY DEF Clean
<1>6. DOMAIN acked \ {admin'} \subseteq DOMAIN acked \ {admin}
  BY <1>0, StoreAssumption DEF IInv, TypeOK
<1>7. \A j \in DOMAIN acked \ {admin'} :
        /\ j \in DOMAIN records /\ j \in DOMAIN records'
        /\ records'[j].secret = records[j].secret
        /\ records'[j].enabled = records[j].enabled
  BY <1>0, <1>6 DEF IInv, AckedIsKept
<1>8. AckedIsKept'
  BY <1>0, <1>6, <1>7 DEF IInv, AckedIsKept, Dumping
<1>9. AckedIsDurable'
  BY <1>0, <1>6 DEF IInv, AckedIsDurable
<1> QED BY <1>1, <1>2, <1>3, <1>4, <1>5, <1>8, <1>9 DEF IInv

-----------------------------------------------------------------------------
(* The flush of a call.                                                      *)

LEMMA InitInvariant == Init => IInv
<1> SUFFICES ASSUME Init PROVE IInv
  OBVIOUS
<1> USE StoreAssumption DEF Init, NoKeys
<1>1. TypeOK
  <2>1. DOMAIN NoKeys = {} /\ file.keys = NoKeys
    OBVIOUS
  <2>2. \A k \in Keys : open[k] \in 0..MaxStreams[k]
    OBVIOUS
  <2> QED BY <2>1, <2>2 DEF TypeOK, Dumping
<1>2. Shapes
  BY DEF Shapes, Dumping
<1>3. Clean
  BY DEF Clean, Image, Dumping
<1>4. KeysAreManaged /\ SessionsNotOvercounted /\ AckedIsKept /\ AckedIsDurable
  BY DEF KeysAreManaged, SessionsNotOvercounted, AckedIsKept, AckedIsDurable
<1> QED BY <1>1, <1>2, <1>3, <1>4 DEF IInv

\* What the store has in memory is typed, and a file of it is well shaped.
LEMMA ImageTypes ==
  ASSUME IInv
  PROVE  /\ Image.managed = managed /\ Image.keys = records
         /\ Image = [managed |-> Image.managed, keys |-> [k \in DOMAIN Image.keys |-> Image.keys[k]]]
  BY DEF IInv, Shapes, Image

\* The flush of a call, or of close, when nothing is being dumped: either the file is the
\* store as it is, and what is acknowledged is in both; or nothing is written.
LEMMA FlushInvariant == IInv /\ Flush => IInv'
<1> SUFFICES ASSUME IInv, Flush PROVE IInv'
  OBVIOUS
<1> USE DEF Flush, Answer, worker, history
<1>0. IInv
  OBVIOUS
<1>1. admin \in Keys /\ admin' = Nobody /\ Nobody \notin Keys /\ DOMAIN acked \subseteq Keys
  BY StoreAssumption DEF IInv, TypeOK
<1>2. file' = file \/ file' = Image
  OBVIOUS
<1>3. /\ file'.managed \in BOOLEAN /\ DOMAIN file'.keys \subseteq Keys
      /\ \A k \in DOMAIN file'.keys : file'.keys[k] \in Record(k)
      /\ file' = [managed |-> file'.managed, keys |-> [k \in DOMAIN file'.keys |-> file'.keys[k]]]
      /\ DOMAIN file'.keys # {} => file'.managed
  BY <1>0, <1>2, ImageTypes DEF IInv, TypeOK, Shapes, KeysAreManaged
<1>4. TypeOK'
  BY <1>0, <1>1, <1>3 DEF IInv, TypeOK, Dumping, Record, Stamps
<1>5. Shapes'
  BY <1>0, <1>3 DEF IInv, Shapes, Dumping
<1>6. KeysAreManaged' /\ SessionsNotOvercounted'
  BY <1>0, <1>3 DEF IInv, KeysAreManaged, SessionsNotOvercounted
<1>7. Clean'
  BY <1>0 DEF IInv, Clean, Image, Dumping
<1>8. /\ admin \in DOMAIN records /\ managed
      /\ \A k \in DOMAIN acked \ {admin} : /\ k \in DOMAIN records
                                           /\ records[k].secret = acked[k].secret
                                           /\ records[k].enabled = acked[k].enabled
  BY <1>0, <1>1 DEF IInv, Shapes, KeysAreManaged, AckedIsKept
<1>9. AckedIsKept'
  BY <1>1, <1>8 DEF AckedIsKept, Dumping
<1>10. AckedIsDurable'
  <2>1. CASE Answer(TRUE) /\ dirty /\ file' = Image
    BY <1>1, <1>8, <2>1 DEF AckedIsDurable, Image
  <2>2. CASE Answer(TRUE) /\ ~dirty /\ UNCHANGED file
    <3>1. file = Image
      BY <1>0, <1>8, <2>2 DEF IInv, Clean
    <3> QED BY <1>1, <1>8, <2>2, <3>1 DEF AckedIsDurable, Image
  <2>3. CASE Answer(FALSE) /\ UNCHANGED file
    BY <1>0, <1>1, <2>3 DEF IInv, AckedIsDurable
  <2> QED BY <2>1, <2>2, <2>3
<1> QED BY <1>4, <1>5, <1>6, <1>7, <1>9, <1>10 DEF IInv

-----------------------------------------------------------------------------
(* The worker.                                                               *)

\* The worker starts with nothing read.
LEMMA WorkerStartsInvariant == IInv /\ WorkerStarts => IInv'
<1> SUFFICES ASSUME IInv, WorkerStarts PROVE IInv'
  OBVIOUS
<1> USE DEF WorkerStarts, Dumping, history
<1>0. IInv
  OBVIOUS
<1>1. DOMAIN dump' = DOMAIN records /\ DOMAIN records # {}
  OBVIOUS
<1>2. \A k \in DOMAIN dump' : dump'[k].secret = 0 /\ ~dump'[k].done
  BY DEF NotRead
<1>3. \A k \in DOMAIN dump' : dump'[k] \in Half(k)
  <2> SUFFICES ASSUME NEW k \in DOMAIN dump' PROVE dump'[k] \in Half(k)
    OBVIOUS
  <2>1. 0 \in 0..MaxSecrets[k] /\ 0 \in 0..MaxUses[k] /\ 0 \in 0..MaxStreams[k] /\ 0 \in Sizes
    BY <1>0, <1>1, StoreAssumption DEF IInv, TypeOK, Sizes
  <2>2. dump'[k] = NotRead
    BY <1>1
  <2> QED BY <2>1, <2>2 DEF NotRead, Half
<1>4. TypeOK'
  BY <1>0, <1>1 DEF IInv, TypeOK
<1>5. Shapes'
  BY <1>0, <1>1, <1>3 DEF IInv, Shapes
<1>6. KeysAreManaged' /\ SessionsNotOvercounted' /\ AckedIsDurable'
  BY <1>0 DEF IInv, KeysAreManaged, SessionsNotOvercounted, AckedIsDurable
<1>7. Clean'
  BY <1>1, <1>2 DEF Clean, ReadAsIs
<1>8. AckedIsKept'
  BY <1>0, <1>1, <1>2 DEF IInv, AckedIsKept
<1> QED BY <1>4, <1>5, <1>6, <1>7, <1>8 DEF IInv

\* A read of a record, whole or half, that is of the record as it is.
LEMMA ReadInvariant ==
  ASSUME IInv, NEW k \in DOMAIN dump, NEW v \in Half(k) \cup Whole(k),
         dump' = [dump EXCEPT ![k] = v],
         UNCHANGED <<phase, memory, file, admin, loop, open, history>>,
         ~dirty => /\ v.secret = records[k].secret /\ v.uses = records[k].uses
                   /\ v.sessions = records[k].sessions
                   /\ IF v.done
                      THEN v.enabled = records[k].enabled /\ v.stamps = records[k].stamps
                      ELSE v.size = Cardinality(records[k].stamps),
         k \in DOMAIN acked \ {admin} => /\ v.secret = acked[k].secret
                                         /\ v.done => v.enabled = acked[k].enabled
  PROVE  IInv'
<1> USE DEF memory, history
<1>0. IInv
  OBVIOUS
<1>1. DOMAIN dump' = DOMAIN dump /\ dump'[k] = v /\ \A j \in DOMAIN dump \ {k} : dump'[j] = dump[j]
  OBVIOUS
<1>2. Dumping' <=> Dumping
  BY <1>1 DEF Dumping
<1>3. TypeOK'
  BY <1>0, <1>2 DEF IInv, TypeOK, Record
<1>4. Shapes'
  BY <1>0, <1>1, <1>2 DEF IInv, Shapes, Half, Whole
<1>5. KeysAreManaged' /\ SessionsNotOvercounted' /\ AckedIsDurable'
  BY <1>0 DEF IInv, KeysAreManaged, SessionsNotOvercounted, AckedIsDurable
<1>6. ~dirty => \A j \in DOMAIN dump' : ReadAsIs(j)'
  BY <1>0, <1>1, <1>2 DEF IInv, Clean, ReadAsIs, Dumping
<1>7. Clean'
  BY <1>0, <1>1, <1>2, <1>6 DEF IInv, Clean, Image
<1>8. AckedIsKept'
  BY <1>0, <1>1, <1>2 DEF IInv, AckedIsKept
<1> QED BY <1>3, <1>4, <1>5, <1>7, <1>8 DEF IInv

\* Both of the worker's reads are.
LEMMA ReadsInvariant ==
  ASSUME IInv, NEW k \in Keys, WorkerReads(k) \/ WorkerReadsRest(k)
  PROVE  IInv'
<1>0. IInv /\ k \in DOMAIN dump /\ k \in DOMAIN records /\ Dumping
  BY DEF WorkerReads, WorkerReadsRest, IInv, Shapes
<1>1. /\ records[k].secret \in 1..MaxSecrets[k] /\ records[k].uses \in 0..MaxUses[k]
      /\ records[k].sessions \in 0..MaxStreams[k] /\ records[k].enabled \in BOOLEAN
      /\ records[k].stamps \in SUBSET Stamps
  BY <1>0 DEF IInv, TypeOK, Record
<1>2. k \in DOMAIN acked \ {admin} =>
        /\ records[k].secret = acked[k].secret /\ records[k].enabled = acked[k].enabled
        /\ dump[k].secret > 0 => dump[k].secret = acked[k].secret
  BY <1>0 DEF IInv, AckedIsKept
<1>3. CASE WorkerReads(k)
  <2> DEFINE v == [done |-> FALSE, secret |-> records[k].secret,
                   uses |-> records[k].uses, sessions |-> records[k].sessions,
                   size |-> Cardinality(records[k].stamps)]
  <2>1. v \in Half(k)
    <3>1. records[k].secret \in 0..MaxSecrets[k]
      BY <1>0, <1>1, StoreAssumption DEF IInv, TypeOK
    <3>2. Cardinality(records[k].stamps) \in Sizes
      BY <1>1 DEF Sizes
    <3> QED BY <1>1, <3>1, <3>2 DEF Half
  <2> QED BY <1>0, <1>2, <1>3, <2>1, ReadInvariant DEF WorkerReads
<1>4. CASE WorkerReadsRest(k)
  <2> DEFINE v == [done |-> TRUE, secret |-> dump[k].secret, uses |-> dump[k].uses,
                   sessions |-> dump[k].sessions, enabled |-> records[k].enabled,
                   stamps |-> records[k].stamps]
  <2>1. dump[k] \in Half(k) /\ dump[k].secret > 0
    BY <1>0, <1>4 DEF IInv, Shapes, WorkerReadsRest, Whole
  <2>2. v \in Whole(k)
    <3>1. /\ dump[k].secret \in 1..MaxSecrets[k] /\ dump[k].uses \in 0..MaxUses[k]
          /\ dump[k].sessions \in 0..MaxStreams[k]
      BY <1>0, <2>1, StoreAssumption DEF IInv, TypeOK, Half
    <3> QED BY <1>1, <3>1 DEF Whole
  <2>3. ~dirty => /\ dump[k].secret = records[k].secret /\ dump[k].uses = records[k].uses
                  /\ dump[k].sessions = records[k].sessions
    BY <1>0, <2>1 DEF IInv, Clean, ReadAsIs
  <2> QED BY <1>0, <1>2, <1>4, <2>1, <2>2, <2>3, ReadInvariant DEF WorkerReadsRest
<1> QED BY <1>3, <1>4

\* The flush that raises does so because a record has been changed since: it is dirty.
LEMMA RaisesInvariant ==
  ASSUME IInv, NEW k \in Keys, WorkerRaises(k)
  PROVE  IInv'
<1> USE DEF WorkerRaises, NoKeys, memory, history
<1>0. IInv
  OBVIOUS
<1>1. Dumping /\ ~Dumping' /\ DOMAIN dump' = {}
  BY DEF Dumping
<1>2. dirty
  BY <1>0 DEF IInv, Clean, ReadAsIs, Unchanged
<1>3. phase # "closed"
  BY <1>0, <1>1 DEF IInv, Shapes
<1>4. TypeOK'
  BY <1>0, <1>1 DEF IInv, TypeOK, LoopAfterRaise
<1>5. Shapes'
  BY <1>0, <1>1, <1>3 DEF IInv, Shapes
<1>6. KeysAreManaged' /\ SessionsNotOvercounted' /\ AckedIsDurable'
  BY <1>0 DEF IInv, KeysAreManaged, SessionsNotOvercounted, AckedIsDurable
<1>7. Clean' /\ AckedIsKept'
  BY <1>0, <1>1, <1>2 DEF IInv, Clean, AckedIsKept
<1> QED BY <1>4, <1>5, <1>6, <1>7 DEF IInv

\* What the worker writes is what it has read: all there is when nothing is dirty, and in
\* any case what an answered call has left.
LEMMA WritesInvariant == IInv /\ WorkerWrites => IInv'
<1> SUFFICES ASSUME IInv, WorkerWrites PROVE IInv'
  OBVIOUS
<1> USE DEF WorkerWrites, NoKeys
<1>0. IInv
  OBVIOUS
<1>1. Dumping /\ ~Dumping' /\ DOMAIN dump' = {} /\ phase # "closed"
  BY <1>0 DEF IInv, Shapes, Dumping
<1>2. /\ DOMAIN DumpedKeys = DOMAIN dump
      /\ DumpedKeys = [k \in DOMAIN DumpedKeys |-> DumpedKeys[k]]
      /\ \A k \in DOMAIN dump : /\ DumpedKeys[k].secret = dump[k].secret
                                /\ DumpedKeys[k].uses = dump[k].uses
                                /\ DumpedKeys[k].sessions = dump[k].sessions
                                /\ DumpedKeys[k].enabled = dump[k].enabled
                                /\ DumpedKeys[k].stamps = dump[k].stamps
  BY DEF DumpedKeys
<1>3. \A k \in DOMAIN dump : dump[k] \in Whole(k) /\ k \in Keys
  BY <1>0 DEF IInv, Shapes, TypeOK, Half
<1>4. \A k \in DOMAIN dump : dump[k].secret > 0 /\ dump[k].done
  <2> SUFFICES ASSUME NEW k \in DOMAIN dump PROVE dump[k].secret > 0 /\ dump[k].done
    OBVIOUS
  <2>1. dump[k].secret \in 1..MaxSecrets[k] /\ dump[k].done = TRUE /\ MaxSecrets[k] \in Nat
    BY <1>3, StoreAssumption DEF Whole
  <2> QED BY <2>1
<1>5. \A k \in DOMAIN dump : DumpedKeys[k] \in Record(k)
  BY <1>3 DEF DumpedKeys, Record, Whole
<1>6. CASE file' = [managed |-> TRUE, keys |-> DumpedKeys] /\ unread' = FALSE /\ dirty' = dirty
           /\ loop' = IF loop = "cancelled" THEN loop ELSE "asleep"
  <2>1. file'.managed = TRUE /\ file'.keys = DumpedKeys
    BY <1>6
  <2>2. TypeOK'
    BY <1>0, <1>1, <1>2, <1>3, <1>5, <1>6, <2>1 DEF IInv, TypeOK
  <2>3. Shapes'
    BY <1>0, <1>1, <1>2, <1>6, <2>1 DEF IInv, Shapes
  <2>4. KeysAreManaged' /\ SessionsNotOvercounted'
    BY <1>0, <2>1 DEF IInv, KeysAreManaged, SessionsNotOvercounted
  <2>5. ~dirty => DumpedKeys = records
    <3> SUFFICES ASSUME ~dirty PROVE DumpedKeys = records
      OBVIOUS
    <3>1. DOMAIN dump = DOMAIN records /\ \A k \in DOMAIN dump : ReadAsIs(k)
      BY <1>0, <1>1 DEF IInv, Clean
    <3>2. \A k \in DOMAIN dump : DumpedKeys[k] = records[k]
      <4> SUFFICES ASSUME NEW k \in DOMAIN dump PROVE DumpedKeys[k] = records[k]
        OBVIOUS
      <4>1. dump[k].done /\ dump[k].secret > 0
        BY <1>4
      <4>2. records[k] = [secret |-> dump[k].secret, uses |-> dump[k].uses,
                          sessions |-> dump[k].sessions, enabled |-> dump[k].enabled,
                          stamps |-> dump[k].stamps]
        <5>1. records[k] \in Record(k) /\ k \in Keys
          BY <1>0, <3>1 DEF IInv, TypeOK
        <5> QED BY <3>1, <4>1, <5>1, RecordIsItsFields DEF ReadAsIs
      <4>3. DumpedKeys[k] = [secret |-> dump[k].secret, uses |-> dump[k].uses,
                             sessions |-> dump[k].sessions, enabled |-> dump[k].enabled,
                             stamps |-> dump[k].stamps]
        BY DEF DumpedKeys
      <4> QED BY <4>2, <4>3
    <3>3. records = [k \in DOMAIN records |-> records[k]]
      BY <1>0 DEF IInv, Shapes
    <3> QED BY <1>2, <3>1, <3>2, <3>3
  <2>6. Clean'
    <3>1. ~dirty => managed /\ DOMAIN dump = DOMAIN records
      BY <1>0, <1>1 DEF IInv, Clean, KeysAreManaged, Dumping
    <3>2. ~dirty => managed = TRUE
      BY <1>0, <3>1 DEF IInv, TypeOK
    <3> QED BY <1>1, <1>6, <2>5, <3>2 DEF Clean, Image
  <2>7. AckedIsKept'
    BY <1>0, <1>1 DEF IInv, AckedIsKept
  <2>8. AckedIsDurable'
    <3>1. \A k \in DOMAIN acked \ {admin} : /\ k \in DOMAIN dump
                                            /\ dump[k].secret > 0 => dump[k].secret = acked[k].secret
                                            /\ dump[k].done => dump[k].enabled = acked[k].enabled
      BY <1>0, <1>1 DEF IInv, AckedIsKept
    <3> QED BY <1>2, <1>6, <1>4, <2>1, <3>1 DEF AckedIsDurable
  <2> QED BY <2>2, <2>3, <2>4, <2>6, <2>7, <2>8 DEF IInv
<1>7. CASE dirty' = TRUE /\ loop' = LoopAfterRaise /\ UNCHANGED <<file, unread>>
  <2>1. TypeOK'
    BY <1>0, <1>1, <1>7 DEF IInv, TypeOK, LoopAfterRaise
  <2>2. Shapes'
    BY <1>0, <1>1, <1>7 DEF IInv, Shapes
  <2>3. KeysAreManaged' /\ SessionsNotOvercounted' /\ AckedIsDurable'
    BY <1>0, <1>7 DEF IInv, KeysAreManaged, SessionsNotOvercounted, AckedIsDurable
  <2>4. Clean' /\ AckedIsKept'
    BY <1>0, <1>1, <1>7 DEF IInv, Clean, AckedIsKept
  <2> QED BY <2>1, <2>2, <2>3, <2>4 DEF IInv
<1> QED BY <1>6, <1>7

-----------------------------------------------------------------------------
(* Shutdown, crash and start.                                                *)

\* Beginning to close and crashing touch neither memory nor file.
LEMMA EndsInvariant == IInv /\ (CloseBegins \/ Crash) => IInv'
<1> SUFFICES ASSUME IInv, CloseBegins \/ Crash PROVE IInv'
  OBVIOUS
<1> USE DEF CloseBegins, Crash, memory, worker, history
<1>0. /\ IInv /\ UNCHANGED <<records, managed, dirty, file, admin, dump, open, acked, unread>>
      /\ phase' \in {"closing", "aborted", "crashed"} /\ loop' \in {loop, "cancelled"}
  OBVIOUS
<1>1. Dumping' <=> Dumping
  BY <1>0 DEF Dumping
<1>2. TypeOK'
  BY <1>0, <1>1 DEF IInv, TypeOK, EventLoop
<1>3. Shapes'
  BY <1>0, <1>1 DEF IInv, Shapes
<1>4. KeysAreManaged' /\ SessionsNotOvercounted' /\ AckedIsDurable' /\ AckedIsKept'
  BY <1>0, <1>1 DEF IInv, KeysAreManaged, SessionsNotOvercounted, AckedIsDurable, AckedIsKept
<1>5. Clean'
  BY <1>0, <1>1 DEF IInv, Clean, ReadAsIs, Image
<1> QED BY <1>2, <1>3, <1>4, <1>5 DEF IInv

\* The last flush writes the store as it is, if it writes.
LEMMA CloseFlushesInvariant == IInv /\ CloseFlushes => IInv'
<1> SUFFICES ASSUME IInv, CloseFlushes PROVE IInv'
  OBVIOUS
<1> USE DEF CloseFlushes, worker
<1>0. IInv
  OBVIOUS
<1>1. file' = file \/ file' = Image
  OBVIOUS
<1>2. /\ file'.managed \in BOOLEAN /\ DOMAIN file'.keys \subseteq Keys
      /\ \A k \in DOMAIN file'.keys : file'.keys[k] \in Record(k)
      /\ file' = [managed |-> file'.managed, keys |-> [k \in DOMAIN file'.keys |-> file'.keys[k]]]
      /\ DOMAIN file'.keys # {} => file'.managed
  BY <1>0, <1>1, ImageTypes DEF IInv, TypeOK, Shapes, KeysAreManaged
<1>3. TypeOK'
  BY <1>0, <1>2 DEF IInv, TypeOK, Dumping
<1>4. Shapes'
  BY <1>0, <1>2 DEF IInv, Shapes, Dumping
<1>5. KeysAreManaged' /\ SessionsNotOvercounted' /\ AckedIsKept'
  BY <1>0, <1>2 DEF IInv, KeysAreManaged, SessionsNotOvercounted, AckedIsKept, Dumping
<1>6. Clean'
  <2>1. Image' = Image /\ ~Dumping /\ ~Dumping' /\ dirty \in BOOLEAN
    BY <1>0 DEF Image, Dumping, IInv, TypeOK
  <2>2. CASE dirty' = FALSE /\ dirty
    BY <2>1, <2>2 DEF Clean
  <2>3. CASE dirty' = FALSE /\ ~dirty /\ UNCHANGED <<file, unread>>
    BY <1>0, <2>1, <2>3 DEF IInv, Clean
  <2>4. CASE UNCHANGED <<dirty, file, unread>> /\ dirty
    BY <2>1, <2>4 DEF Clean
  <2> QED BY <2>1, <2>2, <2>3, <2>4
<1>7. AckedIsDurable'
  <2>1. CASE UNCHANGED file
    BY <1>0, <2>1 DEF IInv, AckedIsDurable
  <2>2. CASE file' = Image
    <3>1. file'.managed = managed /\ file'.keys = records
      BY <1>0, <2>2, ImageTypes
    <3> QED BY <1>0, <3>1 DEF IInv, AckedIsDurable, AckedIsKept, KeysAreManaged
  <2> QED BY <1>1, <2>1, <2>2
<1> QED BY <1>3, <1>4, <1>5, <1>6, <1>7 DEF IInv

\* A start: what the file holds is loaded, with no session left, and dirty if that is a change.
LEMMA LoadInvariant == IInv /\ Load => IInv'
<1> SUFFICES ASSUME IInv, Load PROVE IInv'
  OBVIOUS
<1> USE DEF Load, Fresh, NoKeys
<1>0. IInv
  OBVIOUS
<1>1. DOMAIN dump' = {} /\ ~Dumping' /\ DOMAIN records' = DOMAIN file.keys /\ admin' = Nobody
      /\ phase' = "up" /\ file' = file /\ unread' = FALSE
  BY DEF Dumping
<1>2. \A k \in DOMAIN file.keys :
        /\ records'[k] \in Record(k)
        /\ records'[k].sessions = 0
        /\ records'[k].secret = file.keys[k].secret
        /\ records'[k].enabled = file.keys[k].enabled
        /\ file.keys[k].sessions \in Nat
        /\ file.keys[k].sessions = 0 => records'[k] = file.keys[k]
  <2> SUFFICES ASSUME NEW k \in DOMAIN file.keys
               PROVE  /\ records'[k] \in Record(k)
                      /\ records'[k].sessions = 0
                      /\ records'[k].secret = file.keys[k].secret
                      /\ records'[k].enabled = file.keys[k].enabled
                      /\ file.keys[k].sessions \in Nat
                      /\ file.keys[k].sessions = 0 => records'[k] = file.keys[k]
    OBVIOUS
  <2> DEFINE r == file.keys[k]
  <2>1. /\ k \in Keys /\ r \in Record(k) /\ 0 \in 0..MaxStreams[k]
        /\ MaxStreams[k] \in Nat /\ records'[k] = [r EXCEPT !.sessions = 0]
    BY <1>0, StoreAssumption DEF IInv, TypeOK
  <2> HIDE DEF r
  <2>2. /\ r.secret \in 1..MaxSecrets[k] /\ r.uses \in 0..MaxUses[k] /\ r.sessions \in 0..MaxStreams[k]
        /\ r.enabled \in BOOLEAN /\ r.stamps \in SUBSET Stamps
    BY <2>1 DEF Record
  <2>3. [r EXCEPT !.sessions = 0] \in Record(k)
    BY <2>1, <2>2, FieldsReplaced, Zenon DEF Record
  <2>4. [r EXCEPT !.sessions = 0] = [secret |-> r.secret, uses |-> r.uses, sessions |-> 0,
                                     enabled |-> r.enabled, stamps |-> r.stamps]
    BY <2>1, <2>3, RecordIsItsFields
  <2>5. r.sessions = 0 => [r EXCEPT !.sessions = 0] = r
    BY <2>1, <2>4, RecordIsItsFields
  <2> QED BY <2>1, <2>2, <2>3, <2>4, <2>5 DEF r
<1>3. \A k \in Keys : open'[k] = 0 /\ 0 \in 0..MaxStreams[k]
  BY StoreAssumption
<1>4. TypeOK'
  BY <1>0, <1>1, <1>2, <1>3 DEF IInv, TypeOK
<1>5. Shapes'
  BY <1>0, <1>1 DEF IInv, Shapes
<1>6. KeysAreManaged'
  BY <1>0, <1>1 DEF IInv, KeysAreManaged
<1>7. SessionsNotOvercounted'
  BY <1>0, <1>1, <1>2, <1>3 DEF SessionsNotOvercounted, IInv, TypeOK
<1>8. Clean'
  <2> SUFFICES ASSUME ~dirty' PROVE file' = Image'
    BY <1>1 DEF Clean
  <2>1. ~ \E k \in DOMAIN file.keys : file.keys[k].sessions > 0
    BY Zenon
  <2>2. \A k \in DOMAIN file.keys : file.keys[k].sessions = 0
    <3> SUFFICES ASSUME NEW k \in DOMAIN file.keys PROVE file.keys[k].sessions = 0
      OBVIOUS
    <3>1. file.keys[k].sessions \in Nat
      BY <1>2
    <3>2. ~(file.keys[k].sessions > 0)
      BY <2>1, Zenon
    <3> HIDE DEF Load
    <3> QED BY <3>1, <3>2
  <2>3. records' = [k \in DOMAIN file.keys |-> file.keys[k]]
    BY <1>2, <2>2
  <2> QED BY <1>0, <1>1, <2>3 DEF IInv, Shapes, Image
<1>9. DOMAIN acked' = DOMAIN acked \ {admin} /\ \A k \in DOMAIN acked' : acked'[k] = acked[k]
  OBVIOUS
<1>10. AckedIsDurable' /\ AckedIsKept'
  BY <1>0, <1>1, <1>2, <1>9 DEF IInv, AckedIsDurable, AckedIsKept
<1> QED BY <1>4, <1>5, <1>6, <1>7, <1>8, <1>10 DEF IInv

\* A start that could not read the file has nothing to write and has promised nothing.
LEMMA LoadFailsInvariant == IInv /\ LoadFails => IInv'
<1> SUFFICES ASSUME IInv, LoadFails PROVE IInv'
  OBVIOUS
<1> USE DEF LoadFails, Fresh, NoKeys
<1>0. IInv
  OBVIOUS
<1>1. DOMAIN dump' = {} /\ ~Dumping' /\ DOMAIN records' = {} /\ DOMAIN acked' = {}
  BY DEF Dumping
<1>2. \A k \in Keys : open'[k] = 0 /\ 0 \in 0..MaxStreams[k]
  BY StoreAssumption
<1>3. TypeOK'
  BY <1>0, <1>1, <1>2 DEF IInv, TypeOK
<1>4. Shapes'
  BY <1>0, <1>1 DEF IInv, Shapes
<1>5. KeysAreManaged' /\ SessionsNotOvercounted' /\ Clean' /\ AckedIsKept' /\ AckedIsDurable'
  BY <1>0, <1>1 DEF IInv, KeysAreManaged, SessionsNotOvercounted, Clean, AckedIsKept, AckedIsDurable
<1> QED BY <1>3, <1>4, <1>5 DEF IInv

-----------------------------------------------------------------------------
(* The theorems.                                                             *)

\* Every step keeps the invariant.
LEMMA NextInvariant == IInv /\ [Next]_vars => IInv'
<1> SUFFICES ASSUME IInv, [Next]_vars PROVE IInv'
  OBVIOUS
<1>1. CASE Administration
  BY <1>1, AdministrationPuts, PutsInvariant DEF Administration
<1>2. CASE Flush
  BY <1>2, FlushInvariant
<1>3. CASE Usage
  BY <1>3, UsagePuts, PutsInvariant DEF Usage
<1>4. CASE Worker
  BY <1>4, WorkerStartsInvariant, ReadsInvariant, RaisesInvariant, WritesInvariant DEF Worker
<1>5. CASE CloseBegins \/ Crash
  BY <1>5, EndsInvariant
<1>6. CASE CloseFlushes
  BY <1>6, CloseFlushesInvariant
<1>7. CASE Load \/ LoadFails
  BY <1>7, LoadInvariant, LoadFailsInvariant
<1>8. CASE UNCHANGED vars
  BY <1>8 DEF vars, memory, worker, history, IInv, TypeOK, Shapes, KeysAreManaged, Dumping,
              SessionsNotOvercounted, Clean, ReadAsIs, Image, AckedIsKept, AckedIsDurable
<1> QED BY <1>1, <1>2, <1>3, <1>4, <1>5, <1>6, <1>7, <1>8 DEF Next

\* The inductive invariant of the store holds in every behaviour.
THEOREM StoreInvariant == Spec => []IInv
<1>1. Init => IInv
  BY InitInvariant
<1>2. IInv /\ [Next]_vars => IInv'
  BY NextInvariant
<1> QED BY <1>1, <1>2, PTL DEF Spec

\* TypeOK of api_keys.py's store: every variable keeps its type, and in particular no
\* record ever counts a negative number of sessions.
THEOREM TypeCorrect == Spec => []TypeOK
<1>1. IInv => TypeOK
  BY DEF IInv
<1> QED BY <1>1, StoreInvariant, PTL

\* A record never counts more sessions than the key has streams open, through revocation,
\* shutdown and restart, for any number of streams.
THEOREM SessionsCounted == Spec => []SessionsNotOvercounted
<1>1. IInv => SessionsNotOvercounted
  BY DEF IInv
<1> QED BY <1>1, StoreInvariant, PTL

\* When _dirty is false and no flush is under way the file is the store, whatever was
\* recorded or administered while the worker was reading.
THEOREM CleanWritten == Spec => []CleanIsWritten
<1>1. IInv => CleanIsWritten
  BY DEF IInv, Clean, CleanIsWritten
<1> QED BY <1>1, StoreInvariant, PTL

\* A close that returns has written everything.
THEOREM ClosedWritten == Spec => []ClosedIsWritten
<1>1. IInv => ClosedIsWritten
  BY DEF IInv, Shapes, Clean, ClosedIsWritten
<1> QED BY <1>1, StoreInvariant, PTL

\* What an answered administration call has done is in the file and stays there, through
\* crashes, restarts and flushes that began before the call.
THEOREM AckedDurable == Spec => []AckedIsDurable
<1>1. IInv => AckedIsDurable
  BY DEF IInv
<1> QED BY <1>1, StoreInvariant, PTL
=============================================================================
