------------------------ MODULE AesdCharStepsProofs ------------------------
(***************************************************************************)
(* The driver's stores and reads, step by step under a lock, for any       *)
(* number of tasks, any ring and any allocator, when every task holds      *)
(* fileMutex during its calls.                                             *)
(*                                                                         *)
(* The argument compares the ring of addresses with the ring of bytes that *)
(* the store began with.  Matches says where they agree: everywhere, or    *)
(* everywhere but in the slot that is being freed or filled.  Owned says   *)
(* that allocated blocks and slots are in one-to-one correspondence, so a  *)
(* change of one block shows in one slot only.                             *)
(***************************************************************************)
EXTENDS AesdCharSteps, CircularBufferLemmas, FiniteSetTheorems

Pointer == Block \cup {NULL}
Content == Seq(Byte) \cup {Free, Garbage}

RawEntry == [buffptr : Pointer, size : Nat]
RawRing ==
  [entry : [Slot -> RawEntry], in_offs : Slot, out_offs : Slot, full : BOOLEAN, size : Int]

Deref(m, p) == IF p = NULL THEN NULL ELSE m[p]

FlatOf(r, m) ==
  [r EXCEPT !.entry = [i \in Slot |->
     [r.entry[i] EXCEPT !.buffptr = IF @ = NULL THEN NULL ELSE m[@]]]]

\* The ring r of addresses into m shows the ring b of bytes in the slots S.
Matches(r, m, b, S) ==
  /\ r.in_offs = b.in_offs /\ r.out_offs = b.out_offs /\ r.size = b.size
  /\ r.full <=> b.full
  /\ \A i \in S : /\ r.entry[i].size = b.entry[i].size
                  /\ Deref(m, r.entry[i].buffptr) = b.entry[i].buffptr

Owned(r, m) ==
  /\ \A i, j \in Slot : r.entry[i].buffptr # NULL /\ r.entry[i].buffptr = r.entry[j].buffptr
                          => i = j
  /\ \A p \in Block : m[p] # Free => \E i \in Slot : r.entry[i].buffptr = p

-----------------------------------------------------------------------------
(* The steps one by one.                                                   *)

\* Following every address gives a ring that agrees in every slot.
LEMMA FlatMatches ==
  ASSUME NEW r \in RawRing, NEW m
  PROVE  Matches(r, m, FlatOf(r, m), Slot)
<1>1. /\ FlatOf(r, m).in_offs = r.in_offs /\ FlatOf(r, m).out_offs = r.out_offs
      /\ FlatOf(r, m).size = r.size /\ FlatOf(r, m).full = r.full
  BY DEF FlatOf, RawRing
<1>2. \A i \in Slot : FlatOf(r, m).entry[i] = [r.entry[i] EXCEPT !.buffptr = Deref(m, r.entry[i].buffptr)]
  BY DEF FlatOf, RawRing, Deref
<1>3. \A i \in Slot : r.entry[i] \in RawEntry
  BY DEF RawRing
<1>4. ASSUME NEW i \in Slot
      PROVE  /\ FlatOf(r, m).entry[i].size = r.entry[i].size
             /\ FlatOf(r, m).entry[i].buffptr = Deref(m, r.entry[i].buffptr)
  BY <1>2, <1>3 DEF RawEntry
<1> QED BY <1>1, <1>4 DEF Matches

\* And it is the only such ring.
LEMMA MatchesIsFlat ==
  ASSUME NEW r \in RawRing, NEW m, NEW b \in aesd_circular_buffer, Matches(r, m, b, Slot)
  PROVE  FlatOf(r, m) = b
<1> DEFINE F == FlatOf(r, m)
<1>1. \A i \in Slot : r.entry[i] \in RawEntry /\ b.entry[i] \in aesd_buffer_entry
  BY DEF RawRing, aesd_circular_buffer
<1>2. ASSUME NEW i \in Slot
      PROVE  [r.entry[i] EXCEPT !.buffptr = IF @ = NULL THEN NULL ELSE m[@]] = b.entry[i]
  <2>1. r.entry[i].size = b.entry[i].size /\ Deref(m, r.entry[i].buffptr) = b.entry[i].buffptr
    BY DEF Matches
  <2> QED BY <1>1, <2>1 DEF RawEntry, aesd_buffer_entry, Deref
<1>3. [i \in Slot |-> [r.entry[i] EXCEPT !.buffptr = IF @ = NULL THEN NULL ELSE m[@]]] = b.entry
  BY <1>2 DEF aesd_circular_buffer
<1>4. r.in_offs = b.in_offs /\ r.out_offs = b.out_offs /\ r.size = b.size /\ r.full = b.full
  BY DEF Matches, RawRing, aesd_circular_buffer
<1>5. F = [r EXCEPT !.entry = b.entry]
  BY <1>3 DEF FlatOf
<1> QED BY <1>4, <1>5 DEF RawRing, aesd_circular_buffer

\* my_free of the oldest entry: the other slots still show what they did.
LEMMA FreeStep ==
  ASSUME NEW r \in RawRing, NEW m \in [Block -> Content], NEW b, Matches(r, m, b, Slot),
         Owned(r, m), NEW p, p = r.entry[r.out_offs].buffptr,
         NEW m2, m2 = IF p = NULL THEN m ELSE [m EXCEPT ![p] = Free]
  PROVE  /\ m2 \in [Block -> Content]
         /\ Matches(r, m2, b, Slot \ {r.out_offs})
         /\ Owned(r, m2)
         /\ Deref(m2, p) \in {NULL, Free}
<1>1. p \in Pointer /\ r.out_offs \in Slot /\ \A i \in Slot : r.entry[i].buffptr \in Pointer
  BY DEF RawRing, RawEntry
<1>2. CASE p = NULL
  BY <1>2 DEF Matches, Deref
<1>3. CASE p # NULL
  <2>1. p \in Block /\ m2 = [m EXCEPT ![p] = Free]
    BY <1>1, <1>3 DEF Pointer
  <2>2. m2 \in [Block -> Content] /\ m2[p] = Free /\ \A q \in Block \ {p} : m2[q] = m[q]
    BY <2>1 DEF Content
  <2>3. \A i \in Slot \ {r.out_offs} : r.entry[i].buffptr # p
    BY <1>1, <1>3 DEF Owned
  <2>4. \A i \in Slot \ {r.out_offs} : Deref(m2, r.entry[i].buffptr) = Deref(m, r.entry[i].buffptr)
    BY <1>1, <2>2, <2>3 DEF Deref, Pointer
  <2>5. Matches(r, m2, b, Slot \ {r.out_offs})
    BY <2>4 DEF Matches
  <2>6. Owned(r, m2)
    BY <2>2 DEF Owned
  <2> QED BY <1>3, <2>2, <2>5, <2>6 DEF Deref
<1> QED BY <1>2, <1>3

\* Clearing the freed slot completes the eviction.
LEMMA ClearStep ==
  ASSUME NEW r \in RawRing, NEW m \in [Block -> Content], NEW b \in aesd_circular_buffer,
         Matches(r, m, b, Slot \ {r.out_offs}),
         r.entry[r.out_offs].size = b.entry[b.out_offs].size,
         Deref(m, r.entry[r.out_offs].buffptr) \in {NULL, Free}, Owned(r, m)
  PROVE  /\ Evict(r) \in RawRing
         /\ Matches(Evict(r), m, Evict(b), Slot)
         /\ Owned(Evict(r), m)
<1> DEFINE e == Evict(r)
           c == Evict(b)
<1>1. /\ r.entry \in [Slot -> RawEntry] /\ r.in_offs \in Slot /\ r.out_offs \in Slot
      /\ r.full \in BOOLEAN /\ r.size \in Int
      /\ r.out_offs = b.out_offs /\ r.in_offs = b.in_offs /\ r.size = b.size /\ r.full = b.full
  BY DEF RawRing, Matches, aesd_circular_buffer
<1>2. /\ e.entry = [r.entry EXCEPT ![r.out_offs] = NoEntry]
      /\ e.size = r.size - r.entry[r.out_offs].size
      /\ e.out_offs = Advance(r.out_offs) /\ e.in_offs = r.in_offs /\ e.full = r.full
  BY DEF Evict, RawRing
<1>3. /\ c.entry = [b.entry EXCEPT ![b.out_offs] = NoEntry]
      /\ c.size = b.size - b.entry[b.out_offs].size
      /\ c.out_offs = Advance(b.out_offs) /\ c.in_offs = b.in_offs /\ c.full = b.full
  BY DEF Evict, aesd_circular_buffer
<1>4. Advance(r.out_offs) \in Slot
  BY <1>1, AdvanceWraps
<1>5. NoEntry \in RawEntry /\ NoEntry.buffptr = NULL
  BY DEF NoEntry, RawEntry, Pointer
<1>6. e.size \in Int
  BY <1>1, <1>2 DEF RawEntry
<1>7. e \in RawRing
  BY <1>1, <1>2, <1>4, <1>5, <1>6 DEF RawRing, Evict
<1>8. ASSUME NEW i \in Slot
      PROVE  /\ e.entry[i].size = c.entry[i].size
             /\ Deref(m, e.entry[i].buffptr) = c.entry[i].buffptr
  <2>1. CASE i = r.out_offs
    <3>1. e.entry[i] = NoEntry /\ c.entry[i] = NoEntry
      BY <2>1, <1>1, <1>2, <1>3 DEF aesd_circular_buffer
    <3> QED BY <3>1, <1>5 DEF Deref
  <2>2. CASE i # r.out_offs
    <3>1. e.entry[i] = r.entry[i] /\ c.entry[i] = b.entry[i]
      BY <2>2, <1>1, <1>2, <1>3 DEF aesd_circular_buffer
    <3> QED BY <3>1, <2>2 DEF Matches
  <2> QED BY <2>1, <2>2
<1>9. Matches(e, m, c, Slot)
  <2> HIDE DEF e, c
  <2> QED BY <1>1, <1>2, <1>3, <1>8 DEF Matches
<1>10. Owned(e, m)
  <2>1. \A i \in Slot \ {r.out_offs} : e.entry[i] = r.entry[i]
    BY <1>1, <1>2
  <2>2. e.entry[r.out_offs].buffptr = NULL
    BY <1>1, <1>2, <1>5
  <2> HIDE DEF e
  <2>3. ASSUME NEW i \in Slot, NEW j \in Slot, e.entry[i].buffptr # NULL,
               e.entry[i].buffptr = e.entry[j].buffptr
        PROVE  i = j
    BY <2>1, <2>2, <2>3 DEF Owned
  <2>4. ASSUME NEW p \in Block, m[p] # Free PROVE \E i \in Slot : e.entry[i].buffptr = p
    <3>1. PICK i \in Slot : r.entry[i].buffptr = p
      BY <2>4 DEF Owned
    <3>2. i # r.out_offs
      <4>1. m[p] # NULL /\ p # NULL
        BY ContentAssumption, NullAssumption, BlockAssumption DEF Content
      <4> QED BY <3>1, <4>1, <2>4 DEF Deref
    <3> QED BY <3>1, <3>2, <2>1
  <2> QED BY <2>3, <2>4 DEF Owned
<1> QED BY <1>7, <1>9, <1>10

\* A granted block is nobody else's, and the slot that receives it had none.
LEMMA MallocStep ==
  ASSUME NEW r \in RawRing, NEW m \in [Block -> Content], NEW c \in aesd_circular_buffer,
         Matches(r, m, c, Slot), Owned(r, m), c.entry[c.in_offs].buffptr = NULL,
         NEW p \in Block, m[p] = Free,
         NEW r2, r2.in_offs = r.in_offs, r2.out_offs = r.out_offs, r2.size = r.size,
         r2.full = r.full, r2.entry[r.in_offs].buffptr = p,
         \A i \in Slot \ {r.in_offs} : r2.entry[i] = r.entry[i],
         NEW m2, m2[p] = Garbage, \A q \in Block \ {p} : m2[q] = m[q]
  PROVE  /\ Matches(r2, m2, c, Slot \ {r2.in_offs})
         /\ Owned(r2, m2)
<1>1. /\ r.entry \in [Slot -> RawEntry] /\ r.in_offs \in Slot /\ r.in_offs = c.in_offs
      /\ p \in Pointer /\ p # NULL
  BY BlockAssumption DEF RawRing, Matches, Pointer
<1>2. /\ r2.in_offs = r.in_offs /\ r2.out_offs = r.out_offs /\ r2.size = r.size /\ r2.full = r.full
  OBVIOUS
<1>3. /\ r2.entry[r.in_offs].buffptr = p
      /\ \A i \in Slot \ {r.in_offs} : r2.entry[i] = r.entry[i]
  OBVIOUS
<1>5. m2[p] = Garbage /\ \A q \in Block \ {p} : m2[q] = m[q]
  OBVIOUS
<1>6. r.entry[r.in_offs].buffptr = NULL
  <2>1. Deref(m, r.entry[r.in_offs].buffptr) = NULL /\ r.entry[r.in_offs].buffptr \in Pointer
    BY <1>1 DEF Matches, RawEntry
  <2>2. \A q \in Block : m[q] # NULL
    BY ContentAssumption, NullAssumption DEF Content
  <2> QED BY <2>1, <2>2 DEF Deref, Pointer
<1>7. ASSUME NEW i \in Slot PROVE r.entry[i].buffptr # p
  <2>1. Deref(m, r.entry[i].buffptr) = c.entry[i].buffptr
    BY DEF Matches
  <2>2. c.entry[i].buffptr # Free
    BY ContentAssumption DEF aesd_circular_buffer, aesd_buffer_entry
  <2> QED BY <1>1, <2>1, <2>2 DEF Deref
<1>8. Matches(r2, m2, c, Slot \ {r2.in_offs})
  <2>1. ASSUME NEW i \in Slot \ {r.in_offs}
        PROVE  /\ r2.entry[i].size = c.entry[i].size
               /\ Deref(m2, r2.entry[i].buffptr) = c.entry[i].buffptr
    <3>1. r2.entry[i] = r.entry[i] /\ r.entry[i].buffptr # p /\ r.entry[i].buffptr \in Pointer
      BY <1>1, <1>3, <1>7 DEF RawEntry
    <3>2. r.entry[i].size = c.entry[i].size /\ Deref(m, r.entry[i].buffptr) = c.entry[i].buffptr
      BY DEF Matches
    <3> QED BY <3>1, <3>2, <1>5 DEF Deref, Pointer
  <2>2. /\ r.in_offs = c.in_offs /\ r.out_offs = c.out_offs /\ r.size = c.size
        /\ r.full <=> c.full
    BY DEF Matches
  <2> QED BY <2>1, <2>2, <1>2 DEF Matches
<1>9. Owned(r2, m2)
  <2>1. ASSUME NEW i \in Slot, NEW j \in Slot, r2.entry[i].buffptr # NULL,
               r2.entry[i].buffptr = r2.entry[j].buffptr
        PROVE  i = j
    BY <2>1, <1>3, <1>7 DEF Owned
  <2>2. ASSUME NEW q \in Block, m2[q] # Free PROVE \E i \in Slot : r2.entry[i].buffptr = q
    <3>1. CASE q = p
      BY <3>1, <1>1, <1>3
    <3>2. CASE q # p
      <4>1. PICK i \in Slot : r.entry[i].buffptr = q
        BY <3>2, <2>2, <1>5 DEF Owned
      <4>2. i # r.in_offs
        BY <4>1, <1>6, BlockAssumption
      <4> QED BY <4>1, <4>2, <1>3
    <3> QED BY <3>1, <3>2
  <2> QED BY <2>1, <2>2 DEF Owned
<1> QED BY <1>8, <1>9

\* The copy shows in no other slot.
LEMMA CopyStep ==
  ASSUME NEW r \in RawRing, NEW m \in [Block -> Content], NEW c,
         Matches(r, m, c, Slot \ {r.in_offs}), Owned(r, m),
         NEW p \in Block, p = r.entry[r.in_offs].buffptr,
         m[p] # Free, NEW m2, \A q \in Block \ {p} : m2[q] = m[q]
  PROVE  /\ Matches(r, m2, c, Slot \ {r.in_offs})
         /\ Owned(r, m2)
<1>1. \A i \in Slot : r.entry[i].buffptr \in Pointer
  BY DEF RawRing, RawEntry
<1>2. r.in_offs \in Slot /\ p # NULL
  BY BlockAssumption DEF RawRing
<1>3. \A q \in Block \ {p} : m2[q] = m[q]
  OBVIOUS
<1>4. \A i \in Slot \ {r.in_offs} : r.entry[i].buffptr # p
  BY <1>2 DEF Owned
<1>5. \A i \in Slot \ {r.in_offs} : Deref(m2, r.entry[i].buffptr) = Deref(m, r.entry[i].buffptr)
  BY <1>1, <1>3, <1>4 DEF Deref, Pointer
<1>6. Matches(r, m2, c, Slot \ {r.in_offs})
  BY <1>5 DEF Matches
<1>7. Owned(r, m2)
  BY <1>2, <1>3 DEF Owned
<1> QED BY <1>6, <1>7

\* The last assignments make the new line part of the ring.
LEMMA PublishStep ==
  ASSUME NEW r \in RawRing, NEW m, NEW c \in aesd_circular_buffer,
         Matches(r, m, c, Slot \ {r.in_offs}), Owned(r, m),
         r.entry[r.in_offs].buffptr # NULL,
         NEW data \in Seq(Byte), m[r.entry[r.in_offs].buffptr] = data,
         NEW r2, r2 = [r EXCEPT !.size = @ + Len(data),
                                !.entry[r.in_offs].size = Len(data),
                                !.in_offs = Advance(@),
                                !.full = (Advance(r.in_offs) = r.out_offs)]
  PROVE  /\ r2 \in RawRing
         /\ Matches(r2, m, Store(c, [buffptr |-> data, size |-> Len(data)]), Slot)
         /\ Owned(r2, m)
<1> DEFINE e == [buffptr |-> data, size |-> Len(data)]
           s == Store(c, e)
<1>1. /\ r.entry \in [Slot -> RawEntry] /\ r.in_offs \in Slot /\ r.out_offs \in Slot
      /\ r.full \in BOOLEAN /\ r.size \in Int /\ Len(data) \in Nat
      /\ r.out_offs = c.out_offs /\ r.in_offs = c.in_offs /\ r.size = c.size
  BY DEF RawRing, Matches
<1>2. /\ r2.entry = [r.entry EXCEPT ![r.in_offs] = [r.entry[r.in_offs] EXCEPT !.size = Len(data)]]
      /\ r2.size = r.size + Len(data)
      /\ r2.in_offs = Advance(r.in_offs) /\ r2.out_offs = r.out_offs
      /\ r2.full = (Advance(r.in_offs) = r.out_offs)
  BY DEF RawRing
<1>3. /\ s.entry = [c.entry EXCEPT ![c.in_offs] = e]
      /\ s.size = c.size + Len(data)
      /\ s.in_offs = Advance(c.in_offs) /\ s.out_offs = c.out_offs
      /\ s.full = (Advance(c.in_offs) = c.out_offs)
  BY DEF Store, aesd_circular_buffer
<1>4. /\ r2.entry[r.in_offs] \in RawEntry
      /\ r2.entry[r.in_offs].size = Len(data)
      /\ r2.entry[r.in_offs].buffptr = r.entry[r.in_offs].buffptr
      /\ \A i \in Slot \ {r.in_offs} : r2.entry[i] = r.entry[i]
  BY <1>1, <1>2 DEF RawEntry
<1>5. Advance(r.in_offs) \in Slot
  BY <1>1, AdvanceWraps
<1>6. r2.size \in Int
  BY <1>1, <1>2
<1>7. r2 \in RawRing
  BY <1>1, <1>2, <1>4, <1>5, <1>6 DEF RawRing
<1>8. s.entry[c.in_offs] = e /\ \A i \in Slot \ {c.in_offs} : s.entry[i] = c.entry[i]
  BY <1>1, <1>3 DEF aesd_circular_buffer
<1>9. ASSUME NEW i \in Slot
      PROVE  /\ r2.entry[i].size = s.entry[i].size
             /\ Deref(m, r2.entry[i].buffptr) = s.entry[i].buffptr
  <2>1. CASE i = r.in_offs
    BY <2>1, <1>1, <1>4, <1>8 DEF Deref
  <2>2. CASE i # r.in_offs
    <3>1. r2.entry[i] = r.entry[i] /\ s.entry[i] = c.entry[i]
      BY <2>2, <1>1, <1>4, <1>8
    <3> QED BY <3>1, <2>2 DEF Matches
  <2> QED BY <2>1, <2>2
<1>10. Matches(r2, m, s, Slot)
  <2>1. r2.full <=> s.full
    BY <1>1, <1>2, <1>3
  <2> HIDE DEF s
  <2> QED BY <2>1, <1>1, <1>2, <1>3, <1>9 DEF Matches
<1>11. \A i \in Slot : r2.entry[i].buffptr = r.entry[i].buffptr
  BY <1>4
<1>12. Owned(r2, m)
  BY <1>11 DEF Owned
<1> QED BY <1>7, <1>10, <1>12

-----------------------------------------------------------------------------
(* The invariant.                                                          *)

Place == {"idle", "test", "free", "clear", "malloc", "copy", "publish", "copy_to_user", "return"}

Types ==
  /\ ring \in RawRing
  /\ memory \in [Block -> Content]
  /\ pc \in [Task -> Place]
  /\ line \in [Task -> Seq(Byte)]
  /\ f_pos \in [Task -> Nat]
  /\ found \in [Task -> [slot : Slot, offset : Nat]]
  /\ got \in [Task -> Seq(Byte)]

Exclusive == \A t \in Task : pc[t] # "idle" => fileMutex = t

Filling == ring.entry[ring.in_offs].buffptr

\* How far a store has come, or what a reader has found.
Stage(t) ==
  /\ Storing(t) => Ring(before) /\ line[t] \in Write
  /\ pc[t] \in {"test", "free"} => Matches(ring, memory, before, Slot)
  /\ pc[t] \in {"free", "clear"} => before.full
  /\ pc[t] = "clear" =>
       /\ Matches(ring, memory, before, Slot \ {ring.out_offs})
       /\ ring.entry[ring.out_offs].size = before.entry[before.out_offs].size
       /\ Deref(memory, ring.entry[ring.out_offs].buffptr) \in {NULL, Free}
  /\ pc[t] = "malloc" => Matches(ring, memory, Room(before), Slot)
  /\ pc[t] \in {"copy", "publish"} =>
       /\ TRUE \in MallocOutcomes /\ Filling # NULL
       /\ Matches(ring, memory, Room(before), Slot \ {ring.in_offs})
  /\ pc[t] = "copy" => memory[Filling] = Garbage
  /\ pc[t] = "publish" => memory[Filling] = line[t]
  /\ pc[t] = "copy_to_user" =>
       /\ found[t] # NULL
       /\ found[t] = aesd_circular_buffer_find_entry_offset_for_fpos(ring, f_pos[t])

\* Between stores the ring shows a ring of bytes.
Quiet == (\A t \in Task : ~ Storing(t)) => Ring(FlatOf(ring, memory))

Inv ==
  /\ Types /\ ~ misused /\ Exclusive /\ Owned(ring, memory) /\ Quiet
  /\ \A t \in Task : Stage(t)

-----------------------------------------------------------------------------

\* The ring that was just initialised holds no address.
LEMMA InitFlat ==
  /\ aesd_circular_buffer_init \in RawRing
  /\ \A m : FlatOf(aesd_circular_buffer_init, m) = aesd_circular_buffer_init
<1> DEFINE b == aesd_circular_buffer_init
<1>1. 0 \in Slot /\ NoEntry \in RawEntry /\ NoEntry.buffptr = NULL
  BY MaxAssumption DEF Slot, NoEntry, RawEntry, Pointer
<1>2. b \in RawRing
  BY <1>1 DEF RawRing, aesd_circular_buffer_init
<1>3. b \in aesd_circular_buffer
  BY RingInit DEF Ring
<1>4. ASSUME NEW m PROVE Matches(b, m, b, Slot)
  <2>1. \A i \in Slot : b.entry[i] = NoEntry
    BY DEF aesd_circular_buffer_init
  <2> HIDE DEF b
  <2> QED BY <2>1, <1>1 DEF Matches, Deref
<1> HIDE DEF b
<1>5. \A m : FlatOf(b, m) = b
  BY <1>2, <1>3, <1>4, MatchesIsFlat
<1> QED BY <1>2, <1>5 DEF b

\* The module has just been loaded: no block, no task in a call.
LEMMA InvInit == Init => Inv
<1> SUFFICES ASSUME Init PROVE Inv
  OBVIOUS
<1>1. Types
  BY InitFlat, MaxAssumption DEF Init, Types, Content, Place, NotFound, Slot
<1>2. ~ misused /\ Exclusive /\ Quiet
  BY InitFlat, RingInit DEF Init, Exclusive, Quiet
<1>3. Owned(ring, memory)
  BY DEF Init, Owned, aesd_circular_buffer_init, NoEntry
<1>4. \A t \in Task : Stage(t)
  BY DEF Init, Stage, Storing
<1> QED BY <1>1, <1>2, <1>3, <1>4 DEF Inv

\* Whoever is in a call is alone.
LEMMA Alone ==
  ASSUME Inv, NEW t \in Task, pc[t] # "idle"
  PROVE  fileMutex = t /\ \A u \in Task \ {t} : pc[u] = "idle"
BY DEF Inv, Exclusive

\* One task moves while the others are idle.
LEMMA Moves ==
  ASSUME pc \in [Task -> Place], NEW t \in Task, NEW place \in Place, Goto(t, place),
         \A u \in Task \ {t} : pc[u] = "idle", fileMutex' = t \/ place = "idle"
  PROVE  /\ pc' \in [Task -> Place] /\ pc'[t] = place
         /\ \A u \in Task \ {t} : pc'[u] = "idle"
         /\ Exclusive'
BY DEF Goto, Exclusive

\* The other tasks are outside their calls, so only the stage of t is in question.
LEMMA Together ==
  ASSUME NEW t \in Task, \A u \in Task \ {t} : pc'[u] = "idle",
         Types', ~ misused', Exclusive', Owned(ring', memory'), Stage(t)',
         Storing(t)' \/ Ring(FlatOf(ring', memory'))
  PROVE  Inv'
<1>1. \A u \in Task \ {t} : Stage(u)'
  BY DEF Stage, Storing
<1>2. Quiet'
  BY DEF Quiet
<1> QED BY <1>1, <1>2 DEF Inv

-----------------------------------------------------------------------------
(* One lemma per action.                                                   *)

\* Nobody is in a call while the mutex is free.
LEMMA AllIdle ==
  ASSUME Locking = Task, Inv, NEW t \in Task, Enter(t)
  PROVE  fileMutex' = t /\ (\A u \in Task : pc[u] = "idle") /\ Ring(FlatOf(ring, memory))
<1>1. fileMutex = Nobody /\ fileMutex' = t
  BY DEF Enter
<1>2. \A u \in Task : pc[u] = "idle"
  BY <1>1, LockingAssumption DEF Inv, Exclusive
<1> QED BY <1>1, <1>2 DEF Inv, Quiet, Storing

\* A store begins with the ring as the last call left it.
LEMMA BeginWriteKeeps ==
  ASSUME Locking = Task, Inv, NEW t \in Task, NEW buf \in Write, BeginWrite(t, buf)
  PROVE  Inv'
<1>1. fileMutex' = t /\ (\A u \in Task : pc[u] = "idle") /\ Ring(FlatOf(ring, memory))
  BY AllIdle DEF BeginWrite
<1>2. pc' \in [Task -> Place] /\ pc'[t] = "test" /\ (\A u \in Task \ {t} : pc'[u] = "idle") /\ Exclusive'
  BY <1>1, Moves DEF BeginWrite, Inv, Types, Place
<1>3. buf \in Seq(Byte)
  BY WriteAssumption
<1>4. line'[t] = buf /\ line' \in [Task -> Seq(Byte)]
  BY <1>3 DEF BeginWrite, Inv, Types
<1>5. Types' /\ ~ misused' /\ Owned(ring', memory')
  BY <1>2, <1>4 DEF BeginWrite, Inv, Types
<1>6. before' = FlatOf(ring, memory) /\ ring' = ring /\ memory' = memory
  BY DEF BeginWrite, Flat, FlatOf
<1>7. Matches(ring, memory, FlatOf(ring, memory), Slot)
  BY FlatMatches DEF Inv, Types
<1>8. Stage(t)' /\ Storing(t)'
  BY <1>1, <1>2, <1>4, <1>6, <1>7 DEF Stage, Storing
<1> QED BY <1>2, <1>5, <1>8, Together

\* if (buffer->full): to the eviction or straight to my_malloc.
LEMMA TestFullKeeps ==
  ASSUME Inv, NEW t \in Task, TestFull(t)
  PROVE  Inv'
<1>1. pc[t] = "test" /\ Types /\ Stage(t)
  BY DEF TestFull, At, Inv
<1>2. PICK place \in {"free", "malloc"} :
        /\ Goto(t, place)
        /\ place = "free" <=> ring.full
  BY DEF TestFull
<1>3. pc' \in [Task -> Place] /\ pc'[t] = place /\ (\A u \in Task \ {t} : pc'[u] = "idle") /\ Exclusive'
  <2>1. fileMutex = t /\ (\A u \in Task \ {t} : pc[u] = "idle") /\ fileMutex' = fileMutex
    BY <1>1, Alone DEF TestFull
  <2>2. place \in Place /\ pc \in [Task -> Place]
    BY <1>1 DEF Types, Place
  <2> QED BY <1>2, <2>1, <2>2, Moves
<1>4. Types' /\ ~ misused' /\ Owned(ring', memory')
  BY <1>3 DEF TestFull, Inv, Types
<1>5. Ring(before) /\ line[t] \in Write /\ Matches(ring, memory, before, Slot)
  BY <1>1 DEF Stage, Storing
<1>6. ring.full <=> before.full
  BY <1>5 DEF Matches
<1>7. ~ before.full => Room(before) = before
  BY DEF Room
<1>8. Stage(t)' /\ Storing(t)'
  <2>1. ring' = ring /\ memory' = memory /\ before' = before /\ line' = line
    BY DEF TestFull
  <2>2. CASE place = "free"
    <3>1. before.full /\ pc'[t] = "free"
      BY <1>2, <1>3, <1>6, <2>2
    <3> QED BY <1>5, <2>1, <3>1 DEF Stage, Storing
  <2>3. CASE place = "malloc"
    BY <1>2, <1>3, <1>5, <1>6, <1>7, <2>1, <2>3 DEF Stage, Storing
  <2> QED BY <2>2, <2>3
<1> QED BY <1>3, <1>4, <1>8, Together

\* my_free of the oldest line: its slot alone still leads to the block.
LEMMA FreeOldestKeeps ==
  ASSUME Inv, NEW t \in Task, FreeOldest(t)
  PROVE  Inv'
<1> DEFINE p == ring.entry[ring.out_offs].buffptr
<1>1. pc[t] = "free" /\ Types /\ Stage(t) /\ Owned(ring, memory)
  BY DEF FreeOldest, At, Inv
<1>2. pc' \in [Task -> Place] /\ pc'[t] = "clear" /\ (\A u \in Task \ {t} : pc'[u] = "idle") /\ Exclusive'
  BY <1>1, Alone, Moves DEF FreeOldest, Types, Place
<1>3. Ring(before) /\ line[t] \in Write /\ Matches(ring, memory, before, Slot) /\ before.full
  BY <1>1 DEF Stage, Storing
<1>4. /\ ring' = ring /\ before' = before /\ line' = line
      /\ memory' = IF p = NULL THEN memory ELSE [memory EXCEPT ![p] = Free]
  BY DEF FreeOldest
<1>5. /\ memory' \in [Block -> Content]
      /\ Matches(ring, memory', before, Slot \ {ring.out_offs})
      /\ Owned(ring, memory')
      /\ Deref(memory', p) \in {NULL, Free}
  BY <1>1, <1>3, <1>4, FreeStep DEF Types
<1>6. ring.out_offs \in Slot /\ ring.out_offs = before.out_offs
  BY <1>1, <1>3 DEF Types, RawRing, Matches
<1>7. ring.entry[ring.out_offs].size = before.entry[before.out_offs].size
      /\ Deref(memory, p) = before.entry[before.out_offs].buffptr
  BY <1>3, <1>6 DEF Matches
<1>8. before.entry[before.out_offs].buffptr # Free
  BY <1>3, <1>6, ContentAssumption DEF Ring, aesd_circular_buffer, aesd_buffer_entry
<1>9. ~ misused'
  BY <1>7, <1>8 DEF FreeOldest, Deref
<1>10. Types' /\ Owned(ring', memory')
  BY <1>1, <1>2, <1>4, <1>5 DEF FreeOldest, Types
<1>11. Stage(t)' /\ Storing(t)'
  BY <1>2, <1>3, <1>4, <1>5, <1>7 DEF Stage, Storing
<1> QED BY <1>2, <1>9, <1>10, <1>11, Together

\* The slot is cleared, the size reduced and out_offs advanced: room is made.
LEMMA ClearOldestKeeps ==
  ASSUME Inv, NEW t \in Task, ClearOldest(t)
  PROVE  Inv'
<1>1. pc[t] = "clear" /\ Types /\ Stage(t) /\ Owned(ring, memory)
  BY DEF ClearOldest, At, Inv
<1>2. pc' \in [Task -> Place] /\ pc'[t] = "malloc" /\ (\A u \in Task \ {t} : pc'[u] = "idle") /\ Exclusive'
  BY <1>1, Alone, Moves DEF ClearOldest, Types, Place
<1>3. /\ Ring(before) /\ line[t] \in Write /\ before.full
      /\ Matches(ring, memory, before, Slot \ {ring.out_offs})
      /\ ring.entry[ring.out_offs].size = before.entry[before.out_offs].size
      /\ Deref(memory, ring.entry[ring.out_offs].buffptr) \in {NULL, Free}
  BY <1>1 DEF Stage, Storing
<1>4. ring' = Evict(ring) /\ memory' = memory /\ before' = before /\ line' = line
  BY DEF ClearOldest
<1>5. before \in aesd_circular_buffer /\ Room(before) = Evict(before)
  BY <1>3 DEF Ring, Room
<1>6. /\ Evict(ring) \in RawRing
      /\ Matches(Evict(ring), memory, Evict(before), Slot)
      /\ Owned(Evict(ring), memory)
  BY <1>1, <1>3, <1>5, ClearStep DEF Types
<1>7. Types' /\ ~ misused' /\ Owned(ring', memory')
  BY <1>2, <1>4, <1>6 DEF ClearOldest, Inv, Types
<1>8. Stage(t)' /\ Storing(t)'
  BY <1>2, <1>3, <1>4, <1>5, <1>6 DEF Stage, Storing
<1> QED BY <1>2, <1>7, <1>8, Together

\* The ring the store has made room in.
LEMMA RoomFacts ==
  ASSUME Ring(before)
  PROVE  /\ Ring(Room(before)) /\ Room(before) \in aesd_circular_buffer
         /\ Room(before).in_offs \in Slot
         /\ Room(before).entry[Room(before).in_offs] = NoEntry
         /\ NoEntry.buffptr = NULL
<1>1. /\ Ring(Room(before)) /\ Room(before).entry[before.in_offs] = NoEntry
      /\ Room(before).in_offs = before.in_offs
  BY RoomIsFree
<1>2. Room(before) \in aesd_circular_buffer /\ NoEntry.buffptr = NULL
  BY <1>1 DEF Ring, NoEntry
<1>3. Room(before).in_offs \in Slot
  BY <1>2 DEF aesd_circular_buffer
<1> QED BY <1>1, <1>2, <1>3

\* A refused allocation leaves the ring with the room that was made.
MallocFails(t) ==
  /\ FALSE \in MallocOutcomes
  /\ ring' = [ring EXCEPT !.entry[ring.in_offs].buffptr = NULL]
  /\ Goto(t, "return")
  /\ UNCHANGED memory

\* When my_malloc fails the eviction is all that remains of the store.
LEMMA RefusedIsRoom ==
  ASSUME Inv, NEW t \in Task, pc[t] = "malloc", MallocFails(t)
  PROVE  ring' = ring /\ FlatOf(ring', memory') = Room(before) /\ Ring(Room(before))
<1>1. Types /\ Ring(before) /\ Matches(ring, memory, Room(before), Slot)
  BY DEF Inv, Stage, Storing
<1>2. /\ Ring(Room(before)) /\ Room(before) \in aesd_circular_buffer
      /\ Room(before).in_offs \in Slot
      /\ Room(before).entry[Room(before).in_offs].buffptr = NULL
  BY <1>1, RoomFacts
<1>3. Deref(memory, Filling) = NULL /\ ring.in_offs \in Slot
  BY <1>1, <1>2 DEF Matches, Filling
<1>4. Filling \in Pointer /\ \A q \in Block : memory[q] # NULL
  BY <1>1, <1>3, ContentAssumption, NullAssumption
     DEF Types, RawRing, RawEntry, Filling, Content
<1>5. Filling = NULL
  BY <1>3, <1>4 DEF Deref, Pointer
<1>6. ring' = ring
  BY <1>1, <1>3, <1>5 DEF MallocFails, Types, RawRing, RawEntry, Filling
<1>7. FlatOf(ring, memory) = Room(before)
  BY <1>1, <1>2, MatchesIsFlat DEF Types
<1> QED BY <1>2, <1>6, <1>7 DEF MallocFails

\* The new block is one that no slot leads to.
LEMMA MallocKeeps ==
  ASSUME Inv, NEW t \in Task, Malloc(t)
  PROVE  Inv'
<1>1. pc[t] = "malloc" /\ Types /\ Stage(t) /\ Owned(ring, memory)
  BY DEF Malloc, At, Inv
<1>2. /\ fileMutex' = t /\ pc \in [Task -> Place] /\ \A u \in Task \ {t} : pc[u] = "idle"
      /\ before' = before /\ line' = line /\ ~ misused'
  BY <1>1, Alone DEF Malloc, Types, Inv
<1>3. Ring(before) /\ line[t] \in Write /\ Matches(ring, memory, Room(before), Slot)
  BY <1>1 DEF Stage, Storing
<1>4. /\ Ring(Room(before)) /\ Room(before) \in aesd_circular_buffer
      /\ Room(before).entry[Room(before).in_offs].buffptr = NULL
  BY <1>3, RoomFacts
<1>5. ASSUME NEW p \in Block, TRUE \in MallocOutcomes, memory[p] = Free,
             ring' = [ring EXCEPT !.entry[ring.in_offs].buffptr = p],
             memory' = [memory EXCEPT ![p] = Garbage],
             Goto(t, "copy")
      PROVE  Inv'
  <2>1. pc' \in [Task -> Place] /\ pc'[t] = "copy" /\ (\A u \in Task \ {t} : pc'[u] = "idle") /\ Exclusive'
    BY <1>2, <1>5, Moves DEF Place
  <2>2. /\ ring' \in RawRing /\ memory' \in [Block -> Content]
        /\ Matches(ring', memory', Room(before), Slot \ {ring'.in_offs})
        /\ Owned(ring', memory')
        /\ Filling' = p /\ memory'[p] = Garbage
    <3>1. ring \in RawRing /\ memory \in [Block -> Content]
      BY <1>1 DEF Types
    <3>2. /\ ring'.in_offs = ring.in_offs /\ ring'.out_offs = ring.out_offs
          /\ ring'.size = ring.size /\ ring'.full = ring.full
          /\ ring'.entry = [ring.entry EXCEPT ![ring.in_offs] = [@ EXCEPT !.buffptr = p]]
      BY <1>5, <3>1 DEF RawRing
    <3>3. ring.entry \in [Slot -> RawEntry] /\ ring.in_offs \in Slot /\ p \in Pointer
      BY <3>1 DEF RawRing, Pointer
    <3>4. /\ ring'.entry[ring.in_offs].buffptr = p
          /\ ring'.entry[ring.in_offs] \in RawEntry
          /\ \A i \in Slot \ {ring.in_offs} : ring'.entry[i] = ring.entry[i]
      BY <3>2, <3>3 DEF RawEntry
    <3>5. ring' \in RawRing
      BY <1>5, <3>1, <3>2, <3>3, <3>4 DEF RawRing
    <3>6. /\ memory' \in [Block -> Content] /\ memory'[p] = Garbage
          /\ \A q \in Block \ {p} : memory'[q] = memory[q]
      BY <1>5, <3>1 DEF Content
    <3>7. /\ Matches(ring', memory', Room(before), Slot \ {ring'.in_offs})
          /\ Owned(ring', memory')
      <4>1. /\ ring'.in_offs = ring.in_offs /\ ring'.out_offs = ring.out_offs
            /\ ring'.size = ring.size /\ ring'.full = ring.full
            /\ Owned(ring, memory) /\ memory[p] = Free
        BY <1>1, <1>5, <3>2
      <4> QED BY <1>3, <1>4, <3>1, <3>4, <3>6, <4>1, MallocStep
    <3> QED BY <3>2, <3>4, <3>5, <3>6, <3>7 DEF Filling
  <2>3. Types'
    BY <1>1, <2>1, <2>2 DEF Malloc, Types
  <2>4. Filling' # NULL
    BY <2>2, BlockAssumption
  <2>5. Stage(t)' /\ Storing(t)'
    BY <1>2, <1>3, <1>5, <2>1, <2>2, <2>4 DEF Stage, Storing
  <2> QED BY <1>2, <2>1, <2>2, <2>3, <2>5, Together
<1>6. ASSUME MallocFails(t)
      PROVE  Inv'
  <2>1. pc' \in [Task -> Place] /\ pc'[t] = "return" /\ (\A u \in Task \ {t} : pc'[u] = "idle") /\ Exclusive'
    BY <1>2, <1>6, Moves DEF Place, MallocFails
  <2>2. ring' = ring /\ memory' = memory /\ Ring(FlatOf(ring', memory'))
    BY <1>1, <1>6, RefusedIsRoom DEF MallocFails
  <2>3. Types' /\ Owned(ring', memory')
    BY <1>1, <2>1, <2>2 DEF Malloc, Types
  <2>4. Stage(t)'
    BY <2>1 DEF Stage, Storing
  <2> QED BY <1>2, <2>1, <2>2, <2>3, <2>4, Together
<1> QED BY <1>5, <1>6, Zenon DEF Malloc, MallocFails

\* memcpy fills the block of the slot at in_offs.
LEMMA CopyKeeps ==
  ASSUME Inv, NEW t \in Task, Copy(t)
  PROVE  Inv'
<1>1. pc[t] = "copy" /\ Types /\ Stage(t) /\ Owned(ring, memory)
  BY DEF Copy, At, Inv
<1>2. pc' \in [Task -> Place] /\ pc'[t] = "publish" /\ (\A u \in Task \ {t} : pc'[u] = "idle") /\ Exclusive'
  BY <1>1, Alone, Moves DEF Copy, Types, Place
<1>3. /\ Ring(before) /\ line[t] \in Write
      /\ TRUE \in MallocOutcomes /\ Filling # NULL /\ memory[Filling] = Garbage
      /\ Matches(ring, memory, Room(before), Slot \ {ring.in_offs})
  BY <1>1 DEF Stage, Storing
<1>4. Filling \in Block
  BY <1>1, <1>3 DEF Types, RawRing, RawEntry, Pointer, Filling
<1>5. Usable(Filling)
  BY <1>3, ContentAssumption DEF Usable
<1>6. /\ ring' = ring /\ before' = before /\ line' = line /\ ~ misused'
      /\ memory' = [memory EXCEPT ![Filling] = line[t]]
  BY <1>5 DEF Copy, Filling
<1>7. line[t] \in Seq(Byte)
  BY <1>1 DEF Types
<1>8. /\ memory' \in [Block -> Content]
      /\ Matches(ring, memory', Room(before), Slot \ {ring.in_offs})
      /\ Owned(ring, memory')
      /\ memory'[Filling] = line[t]
  <2>1. ring \in RawRing /\ memory \in [Block -> Content]
    BY <1>1 DEF Types
  <2>2. Filling = ring.entry[ring.in_offs].buffptr
    BY DEF Filling
  <2>3. /\ memory' \in [Block -> Content] /\ memory'[Filling] = line[t]
        /\ \A q \in Block \ {Filling} : memory'[q] = memory[q]
    BY <1>4, <1>6, <1>7, <2>1 DEF Content
  <2>4. memory[Filling] # Free
    BY <1>3, ContentAssumption
  <2>5. /\ Matches(ring, memory', Room(before), Slot \ {ring.in_offs})
        /\ Owned(ring, memory')
    BY <1>1, <1>3, <1>4, <2>1, <2>2, <2>3, <2>4, CopyStep
  <2> QED BY <2>3, <2>5
<1>9. Types' /\ Owned(ring', memory')
  BY <1>1, <1>2, <1>6, <1>8 DEF Copy, Types
<1>10. Filling' = Filling
  BY <1>6 DEF Filling
<1>11. Stage(t)' /\ Storing(t)'
  BY <1>2, <1>3, <1>6, <1>8, <1>10 DEF Stage, Storing
<1> QED BY <1>2, <1>6, <1>9, <1>11, Together

\* The line that is stored, as an entry.
EntryOf(data) == [buffptr |-> data, size |-> Len(data)]

\* The last assignments complete what add_entry promises.
LEMMA PublishIsAdd ==
  ASSUME Inv, NEW t \in Task, Publish(t)
  PROVE  /\ Inv'
         /\ FlatOf(ring', memory') = aesd_circular_buffer_add_entry(before, EntryOf(line[t]), TRUE)
<1>1. pc[t] = "publish" /\ Types /\ Stage(t) /\ Owned(ring, memory)
  BY DEF Publish, At, Inv
<1>2. pc' \in [Task -> Place] /\ pc'[t] = "return" /\ (\A u \in Task \ {t} : pc'[u] = "idle") /\ Exclusive'
  BY <1>1, Alone, Moves DEF Publish, Types, Place
<1>3. /\ Ring(before) /\ line[t] \in Write
      /\ Filling # NULL /\ memory[Filling] = line[t]
      /\ Matches(ring, memory, Room(before), Slot \ {ring.in_offs})
  BY <1>1 DEF Stage, Storing
<1>4. line[t] \in Seq(Byte) /\ Room(before) \in aesd_circular_buffer
  BY <1>1, <1>3, RoomFacts DEF Types
<1>5. /\ ring' = [ring EXCEPT !.size = @ + Len(line[t]),
                             !.entry[ring.in_offs].size = Len(line[t]),
                             !.in_offs = Advance(@),
                             !.full = (Advance(ring.in_offs) = ring.out_offs)]
      /\ memory' = memory
  BY DEF Publish
<1>6. /\ ring' \in RawRing
      /\ Matches(ring', memory, Store(Room(before), EntryOf(line[t])), Slot)
      /\ Owned(ring', memory)
  BY <1>1, <1>3, <1>4, <1>5, PublishStep DEF Types, Filling, EntryOf
<1> DEFINE added == aesd_circular_buffer_add_entry(before, EntryOf(line[t]), TRUE)
<1>7. added = Store(Room(before), EntryOf(line[t]))
  BY DEF aesd_circular_buffer_add_entry, Room
<1>8. Ring(added) /\ added \in aesd_circular_buffer
  <2>1. Len(line[t]) \in Nat /\ line[t] # NULL
    BY <1>4, NullAssumption
  <2>2. /\ EntryOf(line[t]) \in aesd_buffer_entry /\ EntryOf(line[t]).buffptr # NULL
        /\ EntryOf(line[t]).size = Len(EntryOf(line[t]).buffptr)
    BY <2>1, <1>4 DEF EntryOf, aesd_buffer_entry
  <2>3. Ring(added)
    BY <1>3, <2>2, RingAdd
  <2> QED BY <2>3 DEF Ring
<1> HIDE DEF added
<1>9. FlatOf(ring', memory') = added
  BY <1>5, <1>6, <1>7, <1>8, MatchesIsFlat
<1>10. Types' /\ ~ misused' /\ Owned(ring', memory')
  BY <1>1, <1>2, <1>5, <1>6 DEF Publish, Inv, Types
<1>11. Stage(t)'
  BY <1>2 DEF Stage, Storing
<1>12. Inv'
  BY <1>2, <1>8, <1>9, <1>10, <1>11, Together
<1> QED BY <1>9, <1>12 DEF added

\* The search hands out the address of a live slot, or none.
LEMMA FindKeeps ==
  ASSUME Locking = Task, Inv, NEW t \in Task, Find(t)
  PROVE  Inv'
<1> DEFINE hit == aesd_circular_buffer_find_entry_offset_for_fpos(ring, f_pos[t])
<1>1. /\ fileMutex' = t /\ (\A u \in Task : pc[u] = "idle") /\ Ring(FlatOf(ring, memory))
      /\ Types /\ Owned(ring, memory)
  BY AllIdle DEF Find, Inv
<1>2. /\ ring' = ring /\ memory' = memory /\ line' = line /\ got' = got /\ ~ misused'
  BY DEF Find, Inv
<1>3. CASE hit = NULL
  <2>1. Goto(t, "return") /\ f_pos' = [f_pos EXCEPT ![t] = 0] /\ found' = found
    BY <1>3 DEF Find
  <2>2. pc' \in [Task -> Place] /\ pc'[t] = "return" /\ (\A u \in Task \ {t} : pc'[u] = "idle") /\ Exclusive'
    BY <1>1, <2>1, Moves DEF Types, Place
  <2>3. Types'
    BY <1>1, <1>2, <2>1, <2>2 DEF Types
  <2>4. Stage(t)'
    BY <2>2 DEF Stage, Storing
  <2> QED BY <1>1, <1>2, <2>2, <2>3, <2>4, Together
<1>4. CASE hit # NULL
  <2>1. Goto(t, "copy_to_user") /\ found' = [found EXCEPT ![t] = hit] /\ f_pos' = f_pos
    BY <1>4 DEF Find
  <2>2. pc' \in [Task -> Place] /\ pc'[t] = "copy_to_user" /\ (\A u \in Task \ {t} : pc'[u] = "idle") /\ Exclusive'
    BY <1>1, <2>1, Moves DEF Types, Place
  <2>3. ring.out_offs \in Slot /\ (\A i \in Slot : ring.entry[i].size \in Nat) /\ f_pos[t] \in Nat
    BY <1>1 DEF Types, RawRing, RawEntry
  <2>4. hit \in [slot : Slot, offset : Nat]
    <3> HIDE DEF hit
    <3>1. hit = aesd_circular_buffer_find_entry_offset_for_fpos(ring, f_pos[t])
      BY DEF hit
    <3> QED BY <1>4, <2>3, <3>1, FindHits
  <2>5. found' \in [Task -> [slot : Slot, offset : Nat]] /\ found'[t] = hit
    <3> HIDE DEF hit
    <3> QED BY <1>1, <2>1, <2>4 DEF Types
  <2>6. Types'
    BY <1>1, <1>2, <2>1, <2>2, <2>5 DEF Types
  <2>7. Stage(t)'
    BY <1>2, <1>4, <2>1, <2>2, <2>5 DEF Stage, Storing
  <2> QED BY <1>1, <1>2, <2>2, <2>6, <2>7, Together
<1> QED BY <1>3, <1>4

\* What a reader is about to copy: the bytes of a stored line, from an offset
\* inside it.
LEMMA ReaderSees ==
  ASSUME Inv, NEW t \in Task, pc[t] = "copy_to_user", NEW e, e = ring.entry[found[t].slot]
  PROVE  /\ found[t] \in [slot : Slot, offset : Nat] /\ e \in RawEntry
         /\ e.buffptr \in Block /\ memory[e.buffptr] \in Seq(Byte)
         /\ e.size = Len(memory[e.buffptr]) /\ found[t].offset < e.size
         /\ Ring(FlatOf(ring, memory))
<1>1. Types /\ Stage(t) /\ \A u \in Task : ~ Storing(u)
  BY Alone DEF Inv, Storing
<1>2. Ring(FlatOf(ring, memory))
  BY <1>1 DEF Inv, Quiet
<1>3. /\ found[t] # NULL
      /\ found[t] = aesd_circular_buffer_find_entry_offset_for_fpos(ring, f_pos[t])
  BY <1>1 DEF Stage
<1>4. ring.out_offs \in Slot /\ (\A i \in Slot : ring.entry[i].size \in Nat) /\ f_pos[t] \in Nat
  BY <1>1 DEF Types, RawRing, RawEntry
<1>5. /\ found[t] \in [slot : Slot, offset : Nat]
      /\ ring.entry[found[t].slot].buffptr # NULL
      /\ found[t].offset < ring.entry[found[t].slot].size
  BY <1>3, <1>4, FindHits
<1>6. found[t].slot \in Slot /\ e \in RawEntry /\ e.buffptr # NULL /\ e.buffptr \in Block
  BY <1>1, <1>5 DEF Types, RawRing, RawEntry, Pointer
<1> DEFINE F == FlatOf(ring, memory)
<1>7. F.entry[found[t].slot].size = e.size /\ F.entry[found[t].slot].buffptr = memory[e.buffptr]
  BY <1>1, <1>6, FlatMatches DEF Types, Matches, Deref
<1>8. memory[e.buffptr] # NULL
  BY <1>1, <1>6, ContentAssumption, NullAssumption DEF Types, Content
<1> HIDE DEF F
<1>9. /\ F.entry[found[t].slot].buffptr \in Seq(Byte) \cup {NULL}
      /\ F.entry[found[t].slot].buffptr # NULL =>
           F.entry[found[t].slot].size = Len(F.entry[found[t].slot].buffptr)
  BY <1>2, <1>6 DEF F, Ring, Accounted, SlotSizes, aesd_circular_buffer, aesd_buffer_entry
<1> QED BY <1>2, <1>5, <1>6, <1>7, <1>8, <1>9

\* The address is still allocated when its bytes are copied.
LEMMA CopyToUserKeeps ==
  ASSUME Inv, NEW t \in Task, CopyToUser(t)
  PROVE  /\ Inv'
         /\ got'[t] = SubSeq(memory[ring.entry[found[t].slot].buffptr],
                             found[t].offset + 1, ring.entry[found[t].slot].size)
<1>1. PICK e : e = ring.entry[found[t].slot]
  OBVIOUS
<1>2. pc[t] = "copy_to_user" /\ Types
  BY DEF CopyToUser, At, Inv
<1>3. /\ found[t] \in [slot : Slot, offset : Nat] /\ e \in RawEntry
      /\ e.buffptr \in Block /\ memory[e.buffptr] \in Seq(Byte)
      /\ e.size = Len(memory[e.buffptr]) /\ found[t].offset < e.size
      /\ Ring(FlatOf(ring, memory))
  BY <1>1, <1>2, ReaderSees
<1>4. Usable(e.buffptr) /\ e.size >= found[t].offset /\ memory[e.buffptr] # Garbage
  <2>1. e.size >= found[t].offset
    BY <1>3
  <2> QED BY <1>3, <2>1, ContentAssumption, BlockAssumption DEF Usable
<1>5. pc' \in [Task -> Place] /\ pc'[t] = "return" /\ (\A u \in Task \ {t} : pc'[u] = "idle") /\ Exclusive'
  BY <1>2, Alone, Moves DEF CopyToUser, Types, Place
<1> DEFINE data == SubSeq(memory[e.buffptr], found[t].offset + 1, e.size)
<1>6. /\ ~ misused' /\ ring' = ring /\ memory' = memory /\ line' = line /\ found' = found
      /\ got' = [got EXCEPT ![t] = data]
      /\ f_pos' = [f_pos EXCEPT ![t] = @ + Len(got'[t])]
  BY <1>1, <1>4 DEF CopyToUser
<1>7. data \in Seq(Byte) /\ Len(data) \in Nat
  <2>1. /\ found[t].offset + 1 \in 1 .. Len(memory[e.buffptr]) /\ e.size \in 1 .. Len(memory[e.buffptr])
    BY <1>3
  <2>2. data \in Seq(Byte)
    BY <1>3, <2>1
  <2> QED BY <2>2
<1> HIDE DEF data
<1>8. got'[t] = data /\ got' \in [Task -> Seq(Byte)]
  BY <1>2, <1>6, <1>7 DEF Types
<1>9. f_pos' \in [Task -> Nat]
  BY <1>2, <1>6, <1>7, <1>8 DEF Types
<1>10. Types' /\ Owned(ring', memory')
  BY <1>2, <1>5, <1>6, <1>8, <1>9 DEF Types, Inv
<1>11. Stage(t)'
  BY <1>5 DEF Stage, Storing
<1>12. Inv'
  BY <1>3, <1>5, <1>6, <1>10, <1>11, Together
<1> QED BY <1>1, <1>8, <1>12 DEF data

\* Unlocking leaves the ring to whoever comes next.
LEMMA ReturnKeeps ==
  ASSUME Inv, NEW t \in Task, Return(t)
  PROVE  Inv'
<1>1. pc[t] = "return" /\ Types /\ \A u \in Task : ~ Storing(u)
  BY Alone DEF Return, At, Inv, Storing
<1>2. pc' \in [Task -> Place] /\ pc'[t] = "idle" /\ (\A u \in Task \ {t} : pc'[u] = "idle") /\ Exclusive'
  BY <1>1, Alone, Moves DEF Return, Types, Place
<1>3. ring' = ring /\ memory' = memory /\ ~ misused' /\ Owned(ring, memory) /\ Ring(FlatOf(ring, memory))
  BY <1>1 DEF Return, Inv, Quiet
<1>4. NotFound \in [slot : Slot, offset : Nat] /\ <<>> \in Seq(Byte)
  BY MaxAssumption DEF NotFound, Slot
<1>5. Types'
  BY <1>1, <1>2, <1>3, <1>4 DEF Return, Types
<1>6. Stage(t)'
  BY <1>2 DEF Stage, Storing
<1> QED BY <1>2, <1>3, <1>5, <1>6, Together

\* Every step of every task keeps the invariant.
LEMMA InvNext ==
  ASSUME Locking = Task, Inv, [Next]_vars
  PROVE  Inv'
<1>1. CASE UNCHANGED vars
  <2>1. /\ ring' = ring /\ memory' = memory /\ fileMutex' = fileMutex /\ pc' = pc /\ line' = line
        /\ f_pos' = f_pos /\ found' = found /\ got' = got /\ before' = before /\ ~ misused'
    BY <1>1 DEF vars, Inv
  <2>2. Types' /\ Exclusive' /\ Owned(ring', memory')
    BY <2>1 DEF Inv, Types, Exclusive
  <2>3. Quiet'
    BY <2>1 DEF Inv, Quiet, Storing
  <2>4. \A t \in Task : Stage(t)'
    BY <2>1 DEF Inv, Stage, Storing, Filling
  <2> QED BY <2>1, <2>2, <2>3, <2>4 DEF Inv
<1>2. ASSUME NEW t \in Task, NEW buf \in Write, BeginWrite(t, buf) PROVE Inv'
  BY <1>2, BeginWriteKeeps
<1>3. ASSUME NEW t \in Task,
             \/ TestFull(t) \/ FreeOldest(t) \/ ClearOldest(t) \/ Malloc(t) \/ Copy(t) \/ Publish(t)
             \/ Find(t) \/ CopyToUser(t) \/ Return(t)
      PROVE  Inv'
  BY <1>3, TestFullKeeps, FreeOldestKeeps, ClearOldestKeeps, MallocKeeps, CopyKeeps, PublishIsAdd,
     FindKeeps, CopyToUserKeeps, ReturnKeeps
<1> QED BY <1>1, <1>2, <1>3 DEF Next

\* The invariant holds in every reachable state when every task locks.
LEMMA Invariance ==
  ASSUME Locking = Task
  PROVE  Spec => []Inv
<1>1. Inv /\ [Next]_vars => Inv'
  BY InvNext
<1> QED BY <1>1, InvInit, PTL DEF Spec

-----------------------------------------------------------------------------
(* The theorems.                                                           *)

\* While every caller holds fileMutex, no call of the driver reads, writes or
\* frees a block that is not allocated, whatever my_malloc does
\* (aesd_circular_buffer.c:110-147, main.c:60-84).
THEOREM MemorySafe ==
  ASSUME Locking = Task
  PROVE  Spec => []NoMisuse
<1>1. Inv => NoMisuse
  BY DEF Inv, NoMisuse
<1> QED BY <1>1, Invariance, PTL

\* Between calls the allocated blocks are exactly the blocks of the slots: none
\* is lost, shared or unwritten.
THEOREM NothingLeaks ==
  ASSUME Locking = Task
  PROVE  Spec => []BlocksOwned
<1>1. ASSUME Inv, \A t \in Task : ~ Storing(t), NEW b \in Block, memory[b] # Free
      PROVE  Cardinality({i \in Slot : ring.entry[i].buffptr = b}) = 1
  <2>1. PICK i \in Slot : ring.entry[i].buffptr = b
    BY <1>1 DEF Inv, Owned
  <2>2. {j \in Slot : ring.entry[j].buffptr = b} = {i}
    BY <1>1, <2>1, BlockAssumption DEF Inv, Owned
  <2> QED BY <2>2, FS_Singleton
<1>2. ASSUME Inv, \A t \in Task : ~ Storing(t), NEW i \in LiveSlots(ring)
      PROVE  memory[ring.entry[i].buffptr] \notin {Free, Garbage}
  <2> DEFINE F == FlatOf(ring, memory)
  <2>1. i \in Slot /\ ring.entry[i].buffptr # NULL
    BY DEF LiveSlots
  <2>2. Ring(F) /\ ring \in RawRing
    BY <1>2 DEF Inv, Quiet, Types
  <2>3. F.entry[i].buffptr = memory[ring.entry[i].buffptr]
    BY <2>1, <2>2, FlatMatches DEF Matches, Deref
  <2> HIDE DEF F
  <2>4. F.entry[i].buffptr \in Seq(Byte) \cup {NULL}
    BY <2>1, <2>2 DEF Ring, aesd_circular_buffer, aesd_buffer_entry
  <2> QED BY <2>3, <2>4, ContentAssumption
<1>3. Inv => BlocksOwned
  BY <1>1, <1>2 DEF BlocksOwned
<1> QED BY <1>3, Invariance, PTL

\* What a read delivers is what one atomic search and copy would have delivered
\* at that moment, though search and copy are separate accesses (main.c:60-84).
THEOREM ReadsAreAtomic ==
  ASSUME Locking = Task
  PROVE  Spec => ReadIsAtomic
<1> DEFINE Hit(t) == aesd_circular_buffer_find_entry_offset_for_fpos(ring, f_pos[t])
           Delivers(t) ==
             /\ Hit(t) # NULL
             /\ LET e == Flat.entry[Hit(t).slot]
                IN  /\ e.buffptr \notin {NULL, Free, Garbage}
                    /\ got'[t] = SubSeq(e.buffptr, Hit(t).offset + 1, e.size)
<1>1. ASSUME Inv, NEW t \in Task, CopyToUser(t) PROVE Delivers(t)
  <2>1. pc[t] = "copy_to_user" /\ Types /\ Stage(t)
    BY <1>1 DEF CopyToUser, At, Inv
  <2>2. found[t] # NULL /\ found[t] = Hit(t)
    BY <2>1 DEF Stage
  <2>3. PICK e : e = ring.entry[found[t].slot]
    OBVIOUS
  <2>4. /\ found[t] \in [slot : Slot, offset : Nat]
        /\ e.buffptr \in Block /\ memory[e.buffptr] \in Seq(Byte)
    BY <1>1, <2>1, <2>3, ReaderSees
  <2>5. found[t].slot \in Slot /\ e.buffptr # NULL
    BY <2>4, BlockAssumption
  <2>6. Matches(ring, memory, FlatOf(ring, memory), Slot)
    BY <2>1, FlatMatches DEF Types
  <2>7. /\ FlatOf(ring, memory).entry[found[t].slot].size = e.size
        /\ FlatOf(ring, memory).entry[found[t].slot].buffptr = memory[e.buffptr]
    BY <2>3, <2>5, <2>6 DEF Matches, Deref
  <2>8. got'[t] = SubSeq(memory[e.buffptr], found[t].offset + 1, e.size)
    BY <1>1, <2>3, CopyToUserKeeps
  <2>9. memory[e.buffptr] \notin {NULL, Free, Garbage}
    BY <2>4, ContentAssumption, NullAssumption
  <2>10. Flat = FlatOf(ring, memory)
    BY DEF Flat, FlatOf
  <2> HIDE DEF Hit
  <2> QED BY <2>2, <2>7, <2>8, <2>9, <2>10
<1> DEFINE Act == \A t \in Task : CopyToUser(t) => Delivers(t)
<1>2. Inv => [Act]_vars
  BY <1>1
<1>3. Spec => [][Act]_vars
  <2> HIDE DEF Act
  <2> QED BY <1>2, Invariance, PTL
<1> QED BY <1>3 DEF ReadIsAtomic

-----------------------------------------------------------------------------
(* The steps implement the atomic ring.                                    *)

AtomicRing == IF \E t \in Task : Storing(t) THEN before ELSE Flat

\* Both modules mean the same add_entry.
LEMMA AtomicAdd ==
  ASSUME NEW b, NEW write, NEW ok
  PROVE  Atomic!aesd_circular_buffer_add_entry(b, [buffptr |-> write, size |-> Len(write)], ok) =
         aesd_circular_buffer_add_entry(b, EntryOf(write), ok)
BY DEF Atomic!aesd_circular_buffer_add_entry, Atomic!Store, Atomic!StoreFailed, Atomic!Evict,
       Atomic!Advance, Atomic!NoEntry, EntryOf, aesd_circular_buffer_add_entry, Store,
       StoreFailed, Evict, Advance, NoEntry

\* Every step is an add_entry of the atomic ring or leaves that ring alone.
LEMMA StepIsAtomic ==
  ASSUME Locking = Task, Inv, Next
  PROVE  \/ \E write \in Write, ok \in MallocOutcomes :
              AtomicRing' = aesd_circular_buffer_add_entry(AtomicRing, EntryOf(write), ok)
         \/ UNCHANGED AtomicRing
<1>0. Flat = FlatOf(ring, memory) /\ Flat' = FlatOf(ring', memory')
  BY DEF Flat, FlatOf
<1>1. ASSUME NEW t \in Task, pc[t] # "idle"
      PROVE  AtomicRing = IF Storing(t) THEN before ELSE Flat
  BY <1>1, Alone DEF AtomicRing, Storing
<1>2. ASSUME NEW t \in Task, NEW place \in Place, Goto(t, place),
             \A u \in Task \ {t} : pc[u] = "idle"
      PROVE  /\ AtomicRing' = IF Storing(t)' THEN before' ELSE Flat'
             /\ pc'[t] = place
  <2>1. pc'[t] = place /\ \A u \in Task \ {t} : pc'[u] = "idle"
    BY <1>2 DEF Goto, Inv, Types
  <2> QED BY <2>1 DEF AtomicRing, Storing
<1>3. ASSUME NEW t \in Task, NEW buf \in Write, BeginWrite(t, buf)
      PROVE  UNCHANGED AtomicRing
  <2>1. \A u \in Task : pc[u] = "idle"
    BY <1>3, AllIdle DEF BeginWrite
  <2>2. AtomicRing = Flat
    BY <2>1 DEF AtomicRing, Storing
  <2>3. AtomicRing' = before' /\ before' = Flat
    BY <1>2, <1>3, <2>1 DEF BeginWrite, Place, Storing
  <2> QED BY <2>2, <2>3
<1>4. ASSUME NEW t \in Task, NEW place \in {"free", "clear", "malloc", "copy", "publish"},
             Storing(t), Goto(t, place), before' = before
      PROVE  UNCHANGED AtomicRing
  <2>1. pc[t] # "idle" /\ AtomicRing = before
    BY <1>1, <1>4 DEF Storing
  <2>2. \A u \in Task \ {t} : pc[u] = "idle"
    BY <2>1, Alone
  <2>3. place \in Place /\ pc'[t] = place
    BY <1>2, <1>4, <2>2 DEF Place
  <2>4. Storing(t)'
    BY <2>3 DEF Storing
  <2>5. AtomicRing' = before'
    BY <1>2, <1>4, <2>2, <2>3, <2>4
  <2> QED BY <1>4, <2>1, <2>5
<1>5. ASSUME NEW t \in Task, pc[t] = "malloc", MallocFails(t), UNCHANGED before
      PROVE  \E write \in Write, ok \in MallocOutcomes :
               AtomicRing' = aesd_circular_buffer_add_entry(AtomicRing, EntryOf(write), ok)
  <2>1. AtomicRing = before /\ \A u \in Task \ {t} : pc[u] = "idle"
    BY <1>1, <1>5, Alone DEF Storing
  <2>2. AtomicRing' = Flat'
    BY <1>2, <1>5, <2>1 DEF MallocFails, Place, Storing
  <2>3. Flat' = Room(before) /\ Ring(before) /\ line[t] \in Write
    BY <1>0, <1>5, RefusedIsRoom DEF Inv, Stage, Storing
  <2>4. StoreFailed(Room(before)) = Room(before)
    <3>1. /\ Room(before) \in aesd_circular_buffer /\ Room(before).in_offs \in Slot
          /\ Room(before).entry[Room(before).in_offs].buffptr = NULL
      BY <2>3, RoomFacts
    <3>2. PICK r : r = Room(before)
      OBVIOUS
    <3> QED BY <3>1, <3>2 DEF StoreFailed, aesd_circular_buffer, aesd_buffer_entry
  <2>5. aesd_circular_buffer_add_entry(before, EntryOf(line[t]), FALSE) = Room(before)
    BY <2>4 DEF aesd_circular_buffer_add_entry, Room
  <2>6. FALSE \in MallocOutcomes
    BY <1>5 DEF MallocFails
  <2> QED BY <2>1, <2>2, <2>3, <2>5, <2>6
<1>6. ASSUME NEW t \in Task, Publish(t)
      PROVE  \E write \in Write, ok \in MallocOutcomes :
               AtomicRing' = aesd_circular_buffer_add_entry(AtomicRing, EntryOf(write), ok)
  <2>1. pc[t] = "publish" /\ line[t] \in Write /\ TRUE \in MallocOutcomes
    BY <1>6 DEF Publish, At, Inv, Stage, Storing
  <2>2. AtomicRing = before /\ \A u \in Task \ {t} : pc[u] = "idle"
    BY <1>1, <2>1, Alone DEF Storing
  <2>3. AtomicRing' = Flat'
    BY <1>2, <1>6, <2>2 DEF Publish, Place, Storing
  <2>4. Flat' = aesd_circular_buffer_add_entry(before, EntryOf(line[t]), TRUE)
    BY <1>0, <1>6, PublishIsAdd
  <2> QED BY <2>1, <2>2, <2>3, <2>4
<1>7. ASSUME NEW t \in Task, Find(t) PROVE UNCHANGED AtomicRing
  <2>1. \A u \in Task : pc[u] = "idle"
    BY <1>7, AllIdle DEF Find
  <2>2. PICK place \in {"return", "copy_to_user"} : Goto(t, place)
    BY <1>7 DEF Find
  <2>3. AtomicRing = Flat /\ ring' = ring /\ memory' = memory
    BY <1>7, <2>1 DEF AtomicRing, Storing, Find
  <2>4. place \in Place /\ pc'[t] = place
    BY <1>2, <2>1, <2>2 DEF Place
  <2>5. AtomicRing' = Flat'
    BY <1>2, <2>1, <2>2, <2>4 DEF Storing
  <2> QED BY <1>0, <2>3, <2>5
<1>8. ASSUME NEW t \in Task, CopyToUser(t) \/ Return(t) PROVE UNCHANGED AtomicRing
  <2>1. PICK place \in {"return", "idle"} : Goto(t, place)
    BY <1>8 DEF CopyToUser, Return
  <2>2. pc[t] # "idle" /\ ~ Storing(t) /\ ring' = ring /\ memory' = memory
    BY <1>8 DEF CopyToUser, Return, At, Storing
  <2>3. AtomicRing = Flat /\ \A u \in Task \ {t} : pc[u] = "idle"
    BY <1>1, <2>2, Alone
  <2>4. place \in Place /\ pc'[t] = place
    BY <1>2, <2>1, <2>3 DEF Place
  <2>5. AtomicRing' = Flat'
    BY <1>2, <2>1, <2>3, <2>4 DEF Storing
  <2> QED BY <1>0, <2>2, <2>3, <2>5
<1>9. ASSUME NEW t \in Task, TestFull(t) \/ FreeOldest(t) \/ ClearOldest(t) \/ Copy(t)
      PROVE  UNCHANGED AtomicRing
  <2>1. PICK place \in {"free", "clear", "malloc", "copy", "publish"} : Goto(t, place)
    BY <1>9 DEF TestFull, FreeOldest, ClearOldest, Copy
  <2>2. Storing(t) /\ before' = before
    BY <1>9 DEF TestFull, FreeOldest, ClearOldest, Copy, At, Storing
  <2> QED BY <1>4, <2>1, <2>2
<1>10. ASSUME NEW t \in Task, Malloc(t)
       PROVE  \/ MallocFails(t) /\ pc[t] = "malloc" /\ UNCHANGED before
              \/ UNCHANGED AtomicRing
  <2>1. pc[t] = "malloc" /\ before' = before /\ (MallocFails(t) \/ Goto(t, "copy"))
    BY <1>10, Zenon DEF Malloc, At, MallocFails
  <2>2. Storing(t)
    BY <2>1 DEF Storing
  <2> QED BY <1>4, <2>1, <2>2
<1>11. PICK t \in Task :
         \/ \E buf \in Write : BeginWrite(t, buf)
         \/ TestFull(t) \/ FreeOldest(t) \/ ClearOldest(t) \/ Malloc(t) \/ Copy(t) \/ Publish(t)
         \/ Find(t) \/ CopyToUser(t) \/ Return(t)
  BY DEF Next
<1> QED BY <1>3, <1>5, <1>6, <1>7, <1>8, <1>9, <1>10, <1>11

\* While every caller holds fileMutex, the driver's accesses implement the ring
\* whose add_entry is one step (CircularBufferMachine): a store takes effect
\* with its last assignment, or, when my_malloc fails, with the eviction only.
THEOREM RefinesAtomicRing ==
  ASSUME Locking = Task
  PROVE  Spec => ImplementsAtomicRing
<1>1. Init => Atomic!Init
  <2> SUFFICES ASSUME Init PROVE Atomic!Init
    OBVIOUS
  <2>1. \A t \in Task : ~ Storing(t)
    BY DEF Init, Storing
  <2>2. Flat = aesd_circular_buffer_init
    BY InitFlat DEF Init, Flat, FlatOf
  <2>3. Atomic!aesd_circular_buffer_init = aesd_circular_buffer_init
    BY DEF Atomic!aesd_circular_buffer_init, aesd_circular_buffer_init, Atomic!NoEntry, NoEntry,
           Atomic!Slot, Slot
  <2> QED BY <2>1, <2>2, <2>3 DEF Atomic!Init
<1>2. ASSUME Inv, [Next]_vars
      PROVE  [Atomic!Next]_AtomicRing
  <2>1. CASE UNCHANGED vars
    BY <2>1 DEF vars, AtomicRing, Storing, Flat
  <2>2. ASSUME NEW write \in Write, NEW ok \in MallocOutcomes,
               AtomicRing' = aesd_circular_buffer_add_entry(AtomicRing, EntryOf(write), ok)
        PROVE  Atomic!Next
    <3>1. AtomicRing' = Atomic!aesd_circular_buffer_add_entry(AtomicRing,
                            [buffptr |-> write, size |-> Len(write)], ok)
      BY <2>2, AtomicAdd
    <3>2. Atomic!Add(write, ok)
      BY <3>1 DEF Atomic!Add, AtomicRing
    <3> QED BY <3>2 DEF Atomic!Next
  <2> QED BY <1>2, <2>1, <2>2, StepIsAtomic
<1>3. Inv /\ [Next]_vars => [Atomic!Next]_AtomicRing
  BY <1>2
<1> QED BY <1>1, <1>3, Invariance, PTL DEF Spec, ImplementsAtomicRing, Atomic!Spec, AtomicRing
=============================================================================
