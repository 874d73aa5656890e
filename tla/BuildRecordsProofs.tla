------------------------- MODULE BuildRecordsProofs -------------------------
(***************************************************************************)
(* Lemmas about the operations on a session record: each returns a record, *)
(* and none of them loses or invents a callback.                           *)
(***************************************************************************)
EXTENDS BuildRecords, SequenceTheorems, TLAPS

(* A function on the positions of a sequence is a sequence of that length. *)
LEMMA SeqByDomain ==
  ASSUME NEW S, NEW T, NEW o \in Seq(S), NEW f \in [DOMAIN o -> T]
  PROVE  f \in Seq(T) /\ Len(f) = Len(o) /\ DOMAIN f = DOMAIN o
<1>1. DOMAIN o = 1..Len(o) /\ Len(o) \in Nat
  BY LenProperties
<1>2. f \in [1..Len(o) -> T]
  BY <1>1
<1>3. f \in Seq(T)
  BY <1>1, <1>2, SeqDef
<1>4. Len(f) = Len(o)
  BY <1>1, <1>2, <1>3, LenProperties
<1> QED
  BY <1>3, <1>4

(* Superseding keeps every callback and leaves none pending.               *)
LEMMA SupersedeKeeps ==
  ASSUME NEW o \in Seq(Entry)
  PROVE  /\ Supersede(o) \in Seq(Entry)
         /\ Len(Supersede(o)) = Len(o)
         /\ DOMAIN Supersede(o) = DOMAIN o
         /\ \A i \in DOMAIN o : /\ Supersede(o)[i].status = o[i].status
                                /\ Supersede(o)[i].app = o[i].app
                                /\ Supersede(o)[i].state # "pending"
<1>1. \A i \in DOMAIN o : o[i] \in Entry
  BY ElementOfSeq, LenProperties
<1>2. Supersede(o) \in [DOMAIN o -> Entry]
  BY <1>1 DEF Supersede, Entry, EntryState
<1>3. \A i \in DOMAIN o : /\ Supersede(o)[i].status = o[i].status
                          /\ Supersede(o)[i].app = o[i].app
                          /\ Supersede(o)[i].state # "pending"
  BY <1>1 DEF Supersede, Entry, EntryState
<1> QED
  BY <1>2, <1>3, SeqByDomain

(* Announcing appends one pending callback and moves the status.           *)
LEMMA AnnounceType ==
  ASSUME NEW r \in BuildRecord, NEW s \in ReportedStatus,
         NEW app \in Slugs \cup {NoSlug}
  PROVE  Announce(r, s, app) \in BuildRecord
<1>1. NewEntry(s, app) \in Entry
  BY DEF NewEntry, Entry, EntryState, ReportedStatus
<1>2. r.outbox \in Seq(Entry)
  BY DEF BuildRecord
<1>3. Append(r.outbox, NewEntry(s, app)) \in Seq(Entry)
  BY <1>1, <1>2, AppendProperties
<1>4. s \in Status
  BY DEF ReportedStatus, Status
<1> QED
  BY <1>3, <1>4 DEF Announce, BuildRecord

(* Cancelling gives a record.                                              *)
LEMMA CancelledType ==
  ASSUME NEW r \in BuildRecord
  PROVE  Cancelled(r) \in BuildRecord
<1>1. r.outbox \in Seq(Entry)
  BY DEF BuildRecord
<1>2. Supersede(r.outbox) \in Seq(Entry)
  BY <1>1, SupersedeKeeps
<1> QED
  BY <1>2 DEF Cancelled, BuildRecord, Status
=============================================================================
