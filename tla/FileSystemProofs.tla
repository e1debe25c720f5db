-------------------------- MODULE FileSystemProofs --------------------------
(***************************************************************************)
(* Proofs about FileSystem, for any number of processes, descriptors and   *)
(* directory entries, any block size and files of any length, read in      *)
(* pieces of any size.  IInv is the inductive invariant:                   *)
(*   - Typing and Streams say what a descriptor and the bytes in flight in *)
(*     read() have to do with what the program has read: StreamIntact has  *)
(*     no inductive content without the buffer of a read() under way;      *)
(*   - Listing says where a listing that nobody has disturbed stands, in   *)
(*     terms of the call the listing program is in, and that a program     *)
(*     that may begin one finds index_dir at 0.                            *)
(* read_data()'s loop is a recursive function: LoopFrom gives its value in *)
(* closed form, by induction over the natural numbers.                     *)
(***************************************************************************)
EXTENDS FileSystem, Integers, SequenceTheorems, WellFoundedInduction, TLAPS

Bytes == Nat \X Nat

\* The byte of a file at offset a.
Byte(a) == <<a \div DATA_BLK_SIZE, a % DATA_BLK_SIZE>>

\* s is what is in a file of size bytes from offset pos on.
Holds(s, pos, size) ==
    /\ s \in Seq(Bytes)
    /\ pos + Len(s) <= size
    /\ \A i \in 1 .. Len(s) : s[i] = Byte(pos + i - 1)

Descriptors ==
    [table : {"file", "dir", None}, flags : {0, 1}, file_pos : Nat, inode : Files \cup {None}]

Calls ==
    {User} \cup [at : {"read_data"}, fd : Fds, buf : Seq(Bytes)]
           \cup [at : {"end", "dentry"}]
           \cup [at : {"increment"}, name : Nat \cup {None}]
           \cup [at : {"store"}, name : Nat \cup {None}, eax : Nat]

Typing ==
    /\ pids \subseteq Pids /\ fresh \subseteq pids
    /\ fdt \in [Pids -> [Fds -> Descriptors]]
    /\ index_dir \in Nat
    /\ call \in [Pids -> Calls]
    /\ content \in [Pids -> [Fds -> Seq(Bytes)]]
    /\ listed \in [Pids -> Seq(Nat)]
    /\ lister \in pids \cup {None}
    /\ orderly \in BOOLEAN

\* A descriptor, and what was read from it.
Opened(f, got) ==
    /\ f.flags = 0 => f.file_pos = 0
    /\ f.flags = 1 => f.table \in {"file", "dir"}
    /\ f.table = "dir" => f.file_pos = 0
    /\ f.flags = 1 /\ f.table = "file" =>
          /\ f.inode \in Files
          /\ f.file_pos = Len(got)
          /\ Holds(got, 0, file_size[f.inode])

\* A read() under way, of a descriptor f.
InRead(buf, f) ==
    /\ f.flags = 1 /\ f.table = "file"
    /\ Holds(buf, f.file_pos, file_size[f.inode])

Streams ==
    /\ \A p \in Pids, fd \in Fds : Opened(fdt[p][fd], content[p][fd])
    /\ \A p \in Pids : call[p].at = "read_data" => InRead(call[p].buf, fdt[p][call[p].fd])

Scanning(p) == call[p].at \in {"end", "dentry", "increment", "store"}

\* Where the program in p is in the listing.
Scan(rec, list, index) ==
    /\ index = Len(list) /\ index <= num_dir_entries
    /\ \A i \in 1 .. Len(list) : list[i] = i - 1
    /\ rec.at = "end" => index = num_dir_entries
    /\ rec.at \in {"dentry", "increment", "store"} => index < num_dir_entries
    /\ rec.at \in {"increment", "store"} => rec.name = index
    /\ rec.at = "store" => rec.eax = index

Listing ==
    /\ \A p \in Pids : p # lister => ~Scanning(p) /\ listed[p] = <<>>
    /\ lister = None => index_dir \in {0, num_dir_entries}
    /\ lister = None /\ fresh # {} => index_dir = 0
    /\ lister # None => Scan(call[lister], listed[lister], index_dir)

IInv ==
    /\ Typing
    /\ Streams
    /\ \A p \in Pids : call[p] # User => p \in pids
    /\ orderly => Listing

---------------------------------------------------------------------------
(* Natural numbers *)

LEMMA LeastNatural ==
  ASSUME NEW S \in SUBSET Nat, S # {}
  PROVE  \E n \in S : \A m \in S : n <= m
<1> DEFINE R == OpToRel(<, Nat)
<1>1. PICK n \in S : \A m \in S : <<m, n>> \notin R
  <2>1. IsWellFoundedOn(R, Nat)
    BY NatLessThanWellFounded
  <2> HIDE DEF R
  <2> QED BY <2>1, WFMin
<1>2. \A m \in S : ~(m < n)
  BY <1>1 DEF OpToRel
<1> QED BY <1>2

\* What holds of 0 and of every successor holds of all natural numbers.
LEMMA Induction ==
  ASSUME NEW S, 0 \in S, \A n \in Nat : n \in S => n + 1 \in S
  PROVE  Nat \subseteq S
<1> SUFFICES ASSUME Nat \ S # {} PROVE FALSE
  OBVIOUS
<1>1. PICK n \in Nat \ S : \A m \in Nat \ S : n <= m
  BY LeastNatural
<1>2. n # 0 /\ n - 1 \in Nat
  BY <1>1
<1>3. n - 1 \in S
  BY <1>1, <1>2
<1> QED BY <1>1, <1>2, <1>3

\* Quotient and remainder, ...
LEMMA DivMod ==
  ASSUME NEW a \in Nat, NEW b \in Nat \ {0}
  PROVE  /\ a \div b \in Nat /\ a % b \in 0 .. b - 1
         /\ a = b * (a \div b) + (a % b)
<1>1. a \div b \in Int /\ a % b \in 0 .. b - 1
  OBVIOUS
<1>2. a = b * (a \div b) + (a % b)
  OBVIOUS
<1>3. a \div b >= 0
  OBVIOUS
<1> QED BY <1>1, <1>2, <1>3

\* ... which are unique, ...
LEMMA DivModUnique ==
  ASSUME NEW b \in Nat \ {0}, NEW q \in Nat, NEW p \in Nat, NEW r \in 0 .. b - 1,
         NEW s \in 0 .. b - 1, b * q + r = b * p + s
  PROVE  q = p /\ r = s
<1>1. ASSUME NEW x \in Nat, NEW y \in Nat, x < y
      PROVE  b * x + b <= b * y
  <2>1. PICK z \in Nat : y = x + 1 + z
    <3>1. y - x - 1 \in Nat /\ y = x + 1 + (y - x - 1)
      BY <1>1
    <3> QED BY <3>1
  <2>2. b * y = b * x + b + b * z /\ b * z >= 0
    BY <2>1
  <2> QED BY <2>2
<1>2. b * q \in Nat /\ b * p \in Nat
  OBVIOUS
<1>3. ~(q < p) /\ ~(p < q)
  BY <1>1, <1>2
<1> QED BY <1>3

\* ... of the next number.
LEMMA DivModNext ==
  ASSUME NEW a \in Nat, NEW b \in Nat \ {0}
  PROVE  IF (a % b) + 1 >= b
         THEN (a + 1) \div b = (a \div b) + 1 /\ (a + 1) % b = 0
         ELSE (a + 1) \div b = a \div b /\ (a + 1) % b = (a % b) + 1
<1>1. PICK q, r : q = a \div b /\ r = a % b
  OBVIOUS
<1>2. PICK q1, r1 : q1 = (a + 1) \div b /\ r1 = (a + 1) % b
  OBVIOUS
<1>3. q \in Nat /\ r \in 0 .. b - 1 /\ a = b * q + r
  BY <1>1, DivMod
<1>4. q1 \in Nat /\ r1 \in 0 .. b - 1 /\ a + 1 = b * q1 + r1
  <2>1. a + 1 \in Nat
    OBVIOUS
  <2> QED BY <1>2, <2>1, DivMod
<1>5. CASE r + 1 >= b
  <2>1. b * (q + 1) + 0 = b * q1 + r1 /\ q + 1 \in Nat /\ 0 \in 0 .. b - 1
    <3>1. b * (q + 1) = b * q + b
      BY <1>3
    <3> QED BY <1>3, <1>4, <1>5, <3>1
  <2>2. q + 1 = q1 /\ 0 = r1
    BY <1>4, <2>1, DivModUnique
  <2> QED BY <1>1, <1>2, <1>5, <2>2
<1>6. CASE ~(r + 1 >= b)
  <2>1. b * q + (r + 1) = b * q1 + r1 /\ r + 1 \in 0 .. b - 1
    BY <1>3, <1>4, <1>6
  <2>2. q = q1 /\ r + 1 = r1
    BY <1>3, <1>4, <2>1, DivModUnique
  <2> QED BY <1>1, <1>2, <1>6, <2>2
<1> QED BY <1>5, <1>6

---------------------------------------------------------------------------
(* read_data() *)

\* Where the loop is after k bytes from offset on.
Here(offset, k) ==
    IF k = 0 THEN [block |-> offset \div DATA_BLK_SIZE, pos |-> offset % DATA_BLK_SIZE]
    ELSE [block |-> (offset + k - 1) \div DATA_BLK_SIZE,
          pos |-> ((offset + k - 1) % DATA_BLK_SIZE) + 1]

\* That is at offset + k, ...
LEMMA HereAt ==
  ASSUME NEW offset \in Nat, NEW k \in Nat
  PROVE  /\ Here(offset, k).block \in Nat /\ Here(offset, k).pos \in Nat
         /\ Here(offset, k).pos + DATA_BLK_SIZE * Here(offset, k).block = offset + k
<1> DEFINE B == DATA_BLK_SIZE
<1>1. B \in Nat \ {0}
  BY FileSystemAssumption DEF FileSystemAssumption
<1> HIDE DEF B
<1>2. CASE k = 0
  <2>1. Here(offset, k).block = offset \div B /\ Here(offset, k).pos = offset % B
    BY <1>2 DEF Here, B
  <2>2. offset \div B \in Nat /\ offset % B \in 0 .. B - 1
        /\ offset = B * (offset \div B) + (offset % B)
    BY <1>1, DivMod
  <2>3. PICK q, r : q = offset \div B /\ r = offset % B
    OBVIOUS
  <2>4. q \in Nat /\ r \in Nat /\ offset = B * q + r
    BY <1>1, <2>2, <2>3
  <2>5. Here(offset, k).block = q /\ Here(offset, k).pos = r
    BY <2>1, <2>3
  <2>6. r + B * q = offset + k
    <3>1. B * q \in Nat
      BY <1>1, <2>4
    <3> QED BY <1>2, <2>4, <3>1
  <2> QED BY <2>4, <2>5, <2>6 DEF B
<1>3. CASE k # 0
  <2>1. PICK a \in Nat : a = offset + k - 1
    <3>1. offset + k - 1 \in Nat
      BY <1>3
    <3> QED BY <3>1
  <2>2. Here(offset, k).block = a \div B /\ Here(offset, k).pos = (a % B) + 1
    BY <1>3, <2>1 DEF Here, B
  <2>3. a \div B \in Nat /\ a % B \in 0 .. B - 1 /\ a = B * (a \div B) + (a % B)
    BY <1>1, DivMod
  <2>4. PICK q, r : q = a \div B /\ r = a % B
    OBVIOUS
  <2>5. q \in Nat /\ r \in Nat /\ a = B * q + r
    BY <1>1, <2>3, <2>4
  <2>6. Here(offset, k).block = q /\ Here(offset, k).pos = r + 1
    BY <2>2, <2>4
  <2>7. r + 1 + B * q = offset + k
    <3>1. B * q \in Nat
      BY <1>1, <2>5
    <3> QED BY <2>1, <2>5, <3>1
  <2> QED BY <2>5, <2>6, <2>7 DEF B
<1> QED BY <1>2, <1>3

\* ... and the byte there is read next.
LEMMA HereInto ==
  ASSUME NEW offset \in Nat, NEW k \in Nat
  PROVE  IntoBlock(Here(offset, k)) =
           [block |-> (offset + k) \div DATA_BLK_SIZE, pos |-> (offset + k) % DATA_BLK_SIZE]
<1> DEFINE B == DATA_BLK_SIZE
<1>1. B \in Nat \ {0}
  BY FileSystemAssumption DEF FileSystemAssumption
<1> HIDE DEF B
<1>2. CASE k = 0
  <2>1. PICK q, r : q = offset \div B /\ r = offset % B
    OBVIOUS
  <2>2. Here(offset, k) = [block |-> q, pos |-> r]
    BY <1>2, <2>1 DEF Here, B
  <2>3. r \in 0 .. B - 1
    BY <1>1, <2>1, DivMod
  <2>4. ~(r >= B)
    BY <1>1, <2>3
  <2>5. IntoBlock(Here(offset, k)) = [block |-> q, pos |-> r]
    BY <2>2, <2>4 DEF IntoBlock, B
  <2>6. offset + k = offset
    BY <1>2
  <2> QED BY <2>1, <2>5, <2>6 DEF B
<1>3. CASE k # 0
  <2>1. PICK a \in Nat : a = offset + k - 1
    <3>1. offset + k - 1 \in Nat
      BY <1>3
    <3> QED BY <3>1
  <2>2. PICK q, r : q = a \div B /\ r = a % B
    OBVIOUS
  <2>3. Here(offset, k) = [block |-> q, pos |-> r + 1]
    BY <1>3, <2>1, <2>2 DEF Here, B
  <2>4. q \in Nat /\ r \in Nat
    BY <1>1, <2>2, DivMod
  <2>5. offset + k = a + 1
    BY <2>1
  <2>6. PICK q1, r1 : q1 = (a + 1) \div B /\ r1 = (a + 1) % B
    OBVIOUS
  <2>7. IF r + 1 >= B THEN q1 = q + 1 /\ r1 = 0 ELSE q1 = q /\ r1 = r + 1
    BY <1>1, <2>2, <2>6, DivModNext
  <2>8. IntoBlock(Here(offset, k)) = IF r + 1 >= B THEN [block |-> q + 1, pos |-> 0]
                                     ELSE [block |-> q, pos |-> r + 1]
    BY <2>3 DEF IntoBlock, B
  <2>9. IntoBlock(Here(offset, k)) = [block |-> q1, pos |-> r1]
    BY <2>7, <2>8
  <2> QED BY <2>5, <2>6, <2>9 DEF B
<1> QED BY <1>2, <1>3

\* What the loop has after k bytes, ...
Got(offset, k) == [i \in 1 .. k |-> Byte(offset + i - 1)]
Round(offset, k) == [at |-> Here(offset, k), buf |-> Got(offset, k)]

\* ... and one more round of it.
ReadByte(prev, size) ==
    LET at == IntoBlock(prev.at)
    IN  IF AtEnd(prev.at, size) THEN prev
        ELSE [at |-> [at EXCEPT !.pos = @ + 1], buf |-> Append(prev.buf, <<at.block, at.pos>>)]

LEMMA ByteIn ==
  ASSUME NEW a \in Nat
  PROVE  Byte(a) \in Bytes
<1>1. DATA_BLK_SIZE \in Nat \ {0}
  BY FileSystemAssumption DEF FileSystemAssumption
<1>2. a \div DATA_BLK_SIZE \in Nat /\ a % DATA_BLK_SIZE \in Nat
  BY <1>1, DivMod
<1> QED BY <1>2 DEF Byte, Bytes

LEMMA GotIn ==
  ASSUME NEW offset \in Nat, NEW k \in Nat
  PROVE  Got(offset, k) \in Seq(Bytes) /\ Len(Got(offset, k)) = k
<1>1. ASSUME NEW i \in 1 .. k
      PROVE  Byte(offset + i - 1) \in Bytes
  <2>1. offset + i - 1 \in Nat
    OBVIOUS
  <2> QED BY <2>1, ByteIn
<1>2. PICK g : g = Got(offset, k)
  OBVIOUS
<1>3. g \in [1 .. k -> Bytes]
  BY <1>1, <1>2 DEF Got
<1> QED BY <1>2, <1>3, SeqDef

LEMMA GotMore ==
  ASSUME NEW offset \in Nat, NEW k \in Nat
  PROVE  Append(Got(offset, k), Byte(offset + k)) = Got(offset, k + 1)
<1>1. PICK g, h, b : g = Got(offset, k) /\ h = Got(offset, k + 1) /\ b = Byte(offset + k)
  OBVIOUS
<1>2. g \in Seq(Bytes) /\ Len(g) = k
  BY <1>1, GotIn
<1>3. h \in Seq(Bytes) /\ Len(h) = k + 1
  <2>1. k + 1 \in Nat
    OBVIOUS
  <2> QED BY <1>1, <2>1, GotIn
<1>4. b \in Bytes
  <2>1. offset + k \in Nat
    OBVIOUS
  <2> QED BY <1>1, <2>1, ByteIn
<1>5. \A i \in 1 .. k : g[i] = h[i]
  BY <1>1 DEF Got
<1>6. h[k + 1] = b
  <2>1. h[k + 1] = Byte(offset + (k + 1) - 1)
    BY <1>1 DEF Got
  <2>2. offset + (k + 1) - 1 = offset + k
    OBVIOUS
  <2> QED BY <1>1, <2>1, <2>2
<1>7. PICK a : a = Append(g, b)
  OBVIOUS
<1>8. a \in Seq(Bytes) /\ Len(a) = k + 1 /\ a[k + 1] = b /\ \A i \in 1 .. k : a[i] = g[i]
  BY <1>2, <1>4, <1>7, AppendProperties
<1>9. \A i \in 1 .. Len(a) : a[i] = h[i]
  BY <1>5, <1>6, <1>8
<1>10. a = h
  BY <1>3, <1>8, <1>9, SeqEqual
<1> QED BY <1>1, <1>7, <1>10

LEMMA RoundNext ==
  ASSUME NEW offset \in Nat, NEW k \in Nat, NEW size \in Nat
  PROVE  ReadByte(Round(offset, k), size) =
           IF offset + k >= size THEN Round(offset, k) ELSE Round(offset, k + 1)
<1>1. PICK r, h, g : r = Round(offset, k) /\ h = Here(offset, k) /\ g = Got(offset, k)
  OBVIOUS
<1>2. r.at = h /\ r.buf = g
  BY <1>1 DEF Round
<1>3. AtEnd(h, size) <=> offset + k >= size
  BY <1>1, HereAt DEF AtEnd
<1>4. PICK q, p : q = (offset + k) \div DATA_BLK_SIZE /\ p = (offset + k) % DATA_BLK_SIZE
  OBVIOUS
<1>5. IntoBlock(h) = [block |-> q, pos |-> p]
  BY <1>1, <1>4, HereInto
<1>6. Here(offset, k + 1) = [block |-> q, pos |-> p + 1]
  <2>1. k + 1 # 0 /\ offset + (k + 1) - 1 = offset + k
    OBVIOUS
  <2> QED BY <1>4, <2>1 DEF Here
<1>7. Got(offset, k + 1) = Append(g, <<q, p>>)
  BY <1>1, <1>4, GotMore DEF Byte
<1>8. ReadByte(r, size) = IF AtEnd(h, size) THEN r
                          ELSE [at |-> [block |-> q, pos |-> p + 1], buf |-> Append(g, <<q, p>>)]
  BY <1>2, <1>5 DEF ReadByte
<1>9. Round(offset, k + 1) = [at |-> [block |-> q, pos |-> p + 1], buf |-> Append(g, <<q, p>>)]
  BY <1>6, <1>7 DEF Round
<1> QED BY <1>1, <1>3, <1>8, <1>9

\* The loop never goes beyond the end of the file.
Taken(offset, size, n) == IF n <= size - offset THEN n ELSE size - offset

LEMMA TakenNext ==
  ASSUME NEW offset \in Nat, NEW size \in Nat, offset <= size, NEW n \in Nat
  PROVE  ReadByte(Round(offset, Taken(offset, size, n)), size) =
           Round(offset, Taken(offset, size, n + 1))
<1>1. PICK k : k = Taken(offset, size, n)
  OBVIOUS
<1>2. k \in Nat
  BY <1>1 DEF Taken
<1>3. Taken(offset, size, n + 1) = IF offset + k >= size THEN k ELSE k + 1
  BY <1>1 DEF Taken
<1>4. ReadByte(Round(offset, k), size) =
        IF offset + k >= size THEN Round(offset, k) ELSE Round(offset, k + 1)
  BY <1>2, RoundNext
<1> QED BY <1>1, <1>3, <1>4

\* The function that the loop defines.
IsLoop(f, offset, size, length) ==
    f = [n \in 0 .. length |-> IF n = 0 THEN Round(offset, 0) ELSE ReadByte(f[n - 1], size)]

LEMMA LoopExists ==
  ASSUME NEW offset \in Nat, NEW size \in Nat, offset <= size, NEW length \in Nat
  PROVE  \E f : IsLoop(f, offset, size, length)
<1> DEFINE f == [n \in 0 .. length |-> Round(offset, Taken(offset, size, n))]
<1>1. ASSUME NEW n \in 0 .. length
      PROVE  f[n] = IF n = 0 THEN Round(offset, 0) ELSE ReadByte(f[n - 1], size)
  <2>1. CASE n = 0
    <3>1. Taken(offset, size, 0) = 0
      BY DEF Taken
    <3> QED BY <2>1, <3>1
  <2>2. CASE n # 0
    <3>1. PICK m \in Nat : m = n - 1
      <4>1. n - 1 \in Nat
        BY <2>2
      <4> QED BY <4>1
    <3>2. m \in 0 .. length /\ n = m + 1
      BY <3>1
    <3>3. f[m] = Round(offset, Taken(offset, size, m))
      BY <3>2
    <3>4. f[n] = Round(offset, Taken(offset, size, m + 1))
      BY <3>2
    <3> HIDE DEF f
    <3>5. ReadByte(f[m], size) = f[n]
      BY <3>3, <3>4, TakenNext
    <3> QED BY <2>2, <3>1, <3>5
  <2> QED BY <2>1, <2>2
<1>2. f = [n \in 0 .. length |-> f[n]]
  OBVIOUS
<1>3. IsLoop(f, offset, size, length)
  <2> HIDE DEF f
  <2> QED BY <1>1, <1>2 DEF IsLoop
<1> QED BY <1>3

LEMMA LoopFrom ==
  ASSUME NEW offset \in Nat, NEW size \in Nat, offset <= size, NEW length \in Nat,
         NEW f, IsLoop(f, offset, size, length)
  PROVE  f[length] = Round(offset, Taken(offset, size, length))
<1> DEFINE S == {n \in Nat : n <= length => f[n] = Round(offset, Taken(offset, size, n))}
<1>1. 0 \in S
  <2>1. Taken(offset, size, 0) = 0
    BY DEF Taken
  <2>2. f[0] = Round(offset, 0)
    BY DEF IsLoop
  <2> QED BY <2>1, <2>2
<1>2. ASSUME NEW n \in Nat, n \in S
      PROVE  n + 1 \in S
  <2>1. ASSUME n + 1 <= length
        PROVE  f[n + 1] = Round(offset, Taken(offset, size, n + 1))
    <3>1. f[n] = Round(offset, Taken(offset, size, n))
      BY <1>2, <2>1
    <3>2. f[n + 1] = ReadByte(f[n], size)
      <4>1. n + 1 \in 0 .. length /\ n + 1 # 0 /\ (n + 1) - 1 = n
        BY <2>1
      <4> QED BY <4>1 DEF IsLoop
    <3> QED BY <3>1, <3>2, TakenNext
  <2> QED BY <2>1
<1> HIDE DEF S
<1>3. Nat \subseteq S
  BY <1>1, <1>2, Induction
<1> QED BY <1>3 DEF S

\* read_data() gives the bytes of the file from offset on: as many as asked
\* for, or as there are.
LEMMA ReadDataGets ==
  ASSUME NEW size \in Nat, NEW offset \in Nat, offset <= size, NEW length \in Nat
  PROVE  ReadData(size, offset, length) = Got(offset, Taken(offset, size, length))
<1>1. ReadData(size, offset, length) =
        (CHOOSE f : IsLoop(f, offset, size, length))[length].buf
  <2>1. Round(offset, 0) =
          [at |-> [block |-> offset \div DATA_BLK_SIZE, pos |-> offset % DATA_BLK_SIZE],
           buf |-> <<>>]
    BY DEF Round, Here, Got
  <2> QED BY <2>1 DEF ReadData, IsLoop, ReadByte
<1>2. PICK f : f = CHOOSE g : IsLoop(g, offset, size, length)
  OBVIOUS
<1>3. IsLoop(f, offset, size, length)
  BY <1>2, LoopExists
<1>4. f[length] = Round(offset, Taken(offset, size, length))
  BY <1>3, LoopFrom
<1> QED BY <1>1, <1>2, <1>4 DEF Round

LEMMA ReadDataHolds ==
  ASSUME NEW size \in Nat, NEW offset \in Nat, offset <= size, NEW length \in Nat
  PROVE  Holds(ReadData(size, offset, length), offset, size)
<1>1. PICK k : k = Taken(offset, size, length)
  OBVIOUS
<1>2. k \in Nat /\ offset + k <= size
  BY <1>1 DEF Taken
<1>3. PICK g : g = Got(offset, k)
  OBVIOUS
<1>4. g \in Seq(Bytes) /\ Len(g) = k
  BY <1>2, <1>3, GotIn
<1>5. \A i \in 1 .. k : g[i] = Byte(offset + i - 1)
  BY <1>3 DEF Got
<1>6. Holds(g, offset, size)
  BY <1>2, <1>4, <1>5 DEF Holds
<1> QED BY <1>1, <1>3, <1>6, ReadDataGets

---------------------------------------------------------------------------
(* The invariant *)

LEMMA NoneIsNew == None \notin Nat /\ None \notin Pids
<1>1. None \notin Nat
  BY FileSystemAssumption DEF FileSystemAssumption
<1>2. MAX_NUM_PROCESSES \in Nat
  BY FileSystemAssumption DEF FileSystemAssumption
<1>3. Pids \subseteq Nat
  BY <1>2 DEF Pids
<1> QED BY <1>1, <1>3

LEMMA Sizes ==
  /\ num_dir_entries \in Nat \ {0}
  /\ \A name \in Files : name # "." /\ file_size[name] \in Nat
  /\ NBytes \subseteq Nat
<1>1. num_dir_entries \in Nat \ {0}
  BY FileSystemAssumption DEF FileSystemAssumption
<1>2. \A name \in Files : name # "." /\ file_size[name] \in Nat
  BY FileSystemAssumption DEF FileSystemAssumption, Files
<1>3. NBytes \subseteq Nat
  BY FileSystemAssumption DEF FileSystemAssumption
<1> QED BY <1>1, <1>2, <1>3

LEMMA HoldsNothing ==
  ASSUME NEW pos \in Nat, NEW size \in Nat, pos <= size
  PROVE  Holds(<<>>, pos, size)
<1>1. PICK s : s = <<>>
  OBVIOUS
<1>2. s \in Seq(Bytes) /\ Len(s) = 0
  BY <1>1
<1>3. Holds(s, pos, size)
  BY <1>2 DEF Holds
<1> QED BY <1>1, <1>3

\* What is read next follows what was read before.
LEMMA HoldsMore ==
  ASSUME NEW size \in Nat, NEW pos \in Nat, NEW s, NEW t, Holds(s, 0, size), pos = Len(s),
         Holds(t, pos, size)
  PROVE  Holds(s \o t, 0, size) /\ Len(s \o t) = pos + Len(t)
<1>1. s \in Seq(Bytes) /\ t \in Seq(Bytes)
  BY DEF Holds
<1>2. PICK st : st = s \o t
  OBVIOUS
<1>3. /\ st \in Seq(Bytes) /\ Len(st) = Len(s) + Len(t)
      /\ \A i \in 1 .. Len(st) : st[i] = IF i <= Len(s) THEN s[i] ELSE t[i - Len(s)]
  BY <1>1, <1>2, ConcatProperties
<1>4. Len(s) \in Nat /\ Len(t) \in Nat
  BY <1>1, LenProperties
<1>5. ASSUME NEW i \in 1 .. Len(st)
      PROVE  st[i] = Byte(0 + i - 1)
  <2>1. CASE i <= Len(s)
    <3>1. i \in 1 .. Len(s)
      BY <2>1, <1>3, <1>4
    <3>2. s[i] = Byte(0 + i - 1)
      BY <3>1 DEF Holds
    <3> QED BY <1>3, <2>1, <3>2
  <2>2. CASE ~(i <= Len(s))
    <3>1. PICK j : j = i - Len(s)
      OBVIOUS
    <3>2. j \in 1 .. Len(t) /\ pos + j - 1 = 0 + i - 1
      BY <1>3, <1>4, <2>2, <3>1
    <3>3. t[j] = Byte(pos + j - 1)
      BY <3>2 DEF Holds
    <3> QED BY <1>3, <2>2, <3>1, <3>2, <3>3
  <2> QED BY <2>1, <2>2
<1>6. 0 + Len(st) <= size
  BY <1>3, <1>4 DEF Holds
<1>7. Holds(st, 0, size)
  BY <1>3, <1>5, <1>6 DEF Holds
<1> QED BY <1>2, <1>3, <1>7

LEMMA ClosedOk ==
  ASSUME NEW got
  PROVE  /\ Closed \in Descriptors /\ Opened(Closed, got)
         /\ \A inode \in Files \cup {None} :
               LET f == [Closed EXCEPT !.inode = inode]
               IN  f \in Descriptors /\ Opened(f, got)
BY DEF Closed, Descriptors, Opened

LEMMA InitIInv == Init => IInv
<1> SUFFICES ASSUME Init PROVE IInv
  OBVIOUS
<1>1. Typing
  <2>1. \A p \in Pids, fd \in Fds : fdt[p][fd] \in Descriptors
    BY ClosedOk DEF Init
  <2>2. fdt \in [Pids -> [Fds -> Descriptors]]
    BY ClosedOk DEF Init
  <2>3. call \in [Pids -> Calls]
    BY DEF Init, Calls
  <2>4. content \in [Pids -> [Fds -> Seq(Bytes)]] /\ listed \in [Pids -> Seq(Nat)]
    BY DEF Init
  <2> QED BY <2>2, <2>3, <2>4 DEF Init, Typing
<1>2. Streams
  BY ClosedOk DEF Init, Streams, User
<1>3. \A p \in Pids : call[p] = User
  BY DEF Init
<1>4. Listing
  BY <1>3 DEF Init, Listing, Scanning, User
<1> QED BY <1>1, <1>2, <1>3, <1>4 DEF IInv

---------------------------------------------------------------------------
(* Programs start and end *)

LEMMA BlankTable ==
  ASSUME NEW table \in [Pids -> [Fds -> Descriptors]], NEW p \in Pids
  PROVE  /\ LoadPcb(p, table) \in [Pids -> [Fds -> Descriptors]]
         /\ \A q \in Pids : q # p => LoadPcb(p, table)[q] = table[q]
         /\ \A got : \A fd \in Fds : Opened(LoadPcb(p, table)[p][fd], got)
<1>1. \A fd \in Fds : table[p][fd].inode \in Files \cup {None}
  BY DEF Descriptors
<1>2. PICK row : row = [fd \in Fds |-> [Closed EXCEPT !.inode = table[p][fd].inode]]
  OBVIOUS
<1>3. row \in [Fds -> Descriptors] /\ \A got : \A fd \in Fds : Opened(row[fd], got)
  BY <1>1, <1>2, ClosedOk
<1>4. LoadPcb(p, table) = [table EXCEPT ![p] = row]
  BY <1>2 DEF LoadPcb
<1> QED BY <1>3, <1>4

LEMMA FreedTable ==
  ASSUME Typing, Streams, NEW p \in Pids
  PROVE  /\ FreeFds(p) \in [Pids -> [Fds -> Descriptors]]
         /\ \A q \in Pids : q # p => FreeFds(p)[q] = fdt[q]
         /\ \A got : \A fd \in Fds : Opened(FreeFds(p)[p][fd], got)
<1>1. PICK row : row = [fd \in Fds |-> [fdt[p][fd] EXCEPT !.flags = 0, !.file_pos = 0]]
  OBVIOUS
<1>2. ASSUME NEW fd \in Fds, NEW got
      PROVE  row[fd] \in Descriptors /\ Opened(row[fd], got)
  <2>1. PICK f, g : f = fdt[p][fd] /\ g = [f EXCEPT !.flags = 0, !.file_pos = 0]
    OBVIOUS
  <2>2. f \in Descriptors
    BY <2>1 DEF Typing
  <2>3. g \in Descriptors /\ g.flags = 0 /\ g.file_pos = 0
    BY <2>1, <2>2 DEF Descriptors
  <2>4. row[fd] = g
    BY <1>1, <2>1
  <2> QED BY <2>3, <2>4 DEF Opened
<1>3. row \in [Fds -> Descriptors]
  BY <1>1, <1>2
<1>4. FreeFds(p) = [fdt EXCEPT ![p] = row]
  BY <1>1 DEF FreeFds
<1> QED BY <1>2, <1>3, <1>4 DEF Typing

\* A step that changes the program in p only, which leaves read(), and makes
\* the table of q blank, keeps what other programs read.
LEMMA StreamsForget ==
  ASSUME IInv, NEW p \in Pids,
         fdt' \in [Pids -> [Fds -> Descriptors]],
         content' \in [Pids -> [Fds -> Seq(Bytes)]],
         call' \in [Pids -> Calls],
         NEW changed \in SUBSET Pids,
         \A q \in changed : call'[q] = User /\ \A got : \A fd \in Fds : Opened(fdt'[q][fd], got),
         \A q \in Pids \ changed :
            fdt'[q] = fdt[q] /\ content'[q] = content[q] /\ call'[q] = call[q]
  PROVE  Streams'
<1>1. ASSUME NEW q \in Pids, NEW fd \in Fds
      PROVE  Opened(fdt'[q][fd], content'[q][fd])
  BY DEF IInv, Streams
<1>2. ASSUME NEW q \in Pids, call'[q].at = "read_data"
      PROVE  InRead(call'[q].buf, fdt'[q][call'[q].fd])
  <2>1. q \notin changed
    BY <1>2 DEF User
  <2>2. call[q].at = "read_data" /\ InRead(call[q].buf, fdt[q][call[q].fd])
    BY <1>2, <2>1 DEF IInv, Streams
  <2> QED BY <2>1, <2>2
<1> QED BY <1>1, <1>2 DEF Streams

InUse == \A p \in Pids : call[p] # User => p \in pids

LEMMA ResetNat ==
  ASSUME index_dir \in Nat
  PROVE  ResetIndexDir \in Nat
BY DEF ResetIndexDir

LEMMA ExecuteStep ==
  ASSUME IInv, NEW p \in Pids, Execute(p)
  PROVE  IInv'
<1>1. fdt' \in [Pids -> [Fds -> Descriptors]]
  BY BlankTable DEF Execute, IInv, Typing
<1>2. Typing'
  BY <1>1, ResetNat DEF Execute, IInv, Typing
<1>3. Streams'
  <2>1. p \notin pids /\ call[p] = User
    BY DEF Execute, IInv, IsAvailable
  <2>2. \A got : \A fd \in Fds : Opened(fdt'[p][fd], got)
    BY BlankTable DEF Execute, IInv, Typing
  <2>3. \A q \in Pids \ {p} : fdt'[q] = fdt[q]
    BY BlankTable DEF Execute, IInv, Typing
  <2>4. PICK changed \in SUBSET Pids : changed = {p}
    OBVIOUS
  <2>5. call' = call /\ content' = content
    BY DEF Execute
  <2>6. /\ \A q \in changed : call'[q] = User /\ \A got : \A fd \in Fds : Opened(fdt'[q][fd], got)
        /\ \A q \in Pids \ changed :
              fdt'[q] = fdt[q] /\ content'[q] = content[q] /\ call'[q] = call[q]
    BY <2>1, <2>2, <2>3, <2>4, <2>5
  <2> QED BY <1>1, <1>2, <2>4, <2>6, StreamsForget DEF Typing
<1>4. InUse'
  BY DEF Execute, IInv, InUse
<1>5. ASSUME orderly'
      PROVE  Listing'
  <2>1. orderly /\ Listing /\ ~StartsOver
    BY <1>5 DEF Execute, IInv
  <2>2. lister' = lister /\ call' = call /\ listed' = listed /\ index_dir' = ResetIndexDir
    BY DEF Execute
  <2>3. CASE lister = None
    <3>1. index_dir' = 0
      BY <2>1, <2>2, <2>3, Sizes DEF Listing, ResetIndexDir
    <3> QED BY <2>1, <2>2, <2>3, <3>1, Sizes DEF Listing, Scanning
  <2>4. CASE lister # None
    <3>1. index_dir' = index_dir
      BY <2>1, <2>2, <2>4 DEF StartsOver
    <3> QED BY <2>1, <2>2, <2>4, <3>1 DEF Listing, Scanning
  <2> QED BY <2>3, <2>4
<1> QED BY <1>2, <1>3, <1>4, <1>5 DEF IInv, InUse

LEMMA ForgetsTyping ==
  ASSUME Typing, NEW p \in Pids, Forgets(p)
  PROVE  /\ call' \in [Pids -> Calls] /\ call'[p] = User
         /\ content' \in [Pids -> [Fds -> Seq(Bytes)]]
         /\ listed' \in [Pids -> Seq(Nat)] /\ listed'[p] = <<>>
         /\ \A q \in Pids \ {p} : /\ call'[q] = call[q] /\ content'[q] = content[q]
                                  /\ listed'[q] = listed[q]
<1>1. [fd \in Fds |-> <<>>] \in [Fds -> Seq(Bytes)] /\ <<>> \in Seq(Nat) /\ User \in Calls
  BY DEF Calls
<1> QED BY <1>1 DEF Typing, Forgets

\* A program that ends leaves a listing that is not its own as it was.
LEMMA ListingForgets ==
  ASSUME IInv, NEW p \in Pids, Forgets(p), orderly, lister # p
  PROVE  /\ lister' = lister
         /\ \A q \in Pids : q # lister' => ~Scanning(q)' /\ listed'[q] = <<>>
         /\ lister # None => Scan(call'[lister], listed'[lister], index_dir)
<1>1. Listing /\ Typing
  BY DEF IInv
<1>2. lister' = lister
  BY DEF Forgets
<1>3. ASSUME NEW q \in Pids, q # lister
      PROVE  ~Scanning(q)' /\ listed'[q] = <<>>
  <2>1. CASE q = p
    BY <1>1, <2>1, ForgetsTyping DEF Scanning, User
  <2>2. CASE q # p
    BY <1>1, <1>3, <2>2, ForgetsTyping DEF Scanning, Listing
  <2> QED BY <2>1, <2>2
<1>4. ASSUME lister # None
      PROVE  Scan(call'[lister], listed'[lister], index_dir)
  <2>1. lister \in Pids \ {p}
    BY <1>1, <1>4 DEF Typing
  <2> QED BY <1>1, <1>4, <2>1, ForgetsTyping DEF Listing
<1> QED BY <1>2, <1>3, <1>4

LEMMA HaltStep ==
  ASSUME IInv, NEW p \in Pids, Halt(p)
  PROVE  IInv'
<1>1. Typing /\ Streams /\ Forgets(p)
  BY DEF IInv, Halt
<1>2. PICK row : row = [fd \in Fds |-> IF fdt[p][fd].flags = 0 THEN fdt[p][fd] ELSE Closed]
  OBVIOUS
<1>3. ASSUME NEW fd \in Fds, NEW got
      PROVE  row[fd] \in Descriptors /\ Opened(row[fd], got)
  <2>1. PICK f, c : f = fdt[p][fd] /\ c = content[p][fd]
    OBVIOUS
  <2>2. f \in Descriptors /\ Opened(f, c)
    BY <1>1, <2>1 DEF Typing, Streams
  <2>3. ASSUME f.flags = 0
        PROVE  Opened(f, got)
    BY <2>2, <2>3 DEF Opened
  <2>4. row[fd] = IF f.flags = 0 THEN f ELSE Closed
    BY <1>2, <2>1
  <2> QED BY <2>2, <2>3, <2>4, ClosedOk
<1>4. fdt' = [fdt EXCEPT ![p] = row]
  BY <1>2 DEF Halt
<1>5. fdt' \in [Pids -> [Fds -> Descriptors]]
  <2>1. row \in [Fds -> Descriptors]
    BY <1>2, <1>3
  <2> QED BY <1>1, <1>4, <2>1 DEF Typing
<1>6. fdt'[p] = row /\ \A q \in Pids \ {p} : fdt'[q] = fdt[q]
  BY <1>1, <1>4 DEF Typing
<1>7. Typing'
  <2>1. lister' = (IF lister = p THEN None ELSE lister) /\ lister' \in pids' \cup {None}
    BY <1>1 DEF Forgets, Typing, Halt
  <2>2. pids' \subseteq Pids /\ fresh' \subseteq pids' /\ index_dir' \in Nat /\ orderly' \in BOOLEAN
    BY <1>1 DEF Typing, Halt
  <2> QED BY <1>1, <1>5, <2>1, <2>2, ForgetsTyping DEF Typing
<1>8. Streams'
  <2>1. PICK changed \in SUBSET Pids : changed = {p}
    OBVIOUS
  <2>2. \A q \in changed : call'[q] = User /\ \A got : \A fd \in Fds : Opened(fdt'[q][fd], got)
    BY <1>1, <1>3, <1>6, <2>1, ForgetsTyping
  <2>3. \A q \in Pids \ changed :
           fdt'[q] = fdt[q] /\ content'[q] = content[q] /\ call'[q] = call[q]
    BY <1>1, <1>6, <2>1, ForgetsTyping
  <2> QED BY <1>5, <1>7, <2>2, <2>3, StreamsForget DEF Typing
<1>9. InUse'
  <2>1. ASSUME NEW q \in Pids, call'[q] # User
        PROVE  q \in pids'
    <3>1. q # p /\ call'[q] = call[q]
      BY <1>1, <2>1, ForgetsTyping
    <3> QED BY <2>1, <3>1 DEF IInv, Halt
  <2> QED BY <2>1 DEF InUse
<1>10. ASSUME orderly'
       PROVE  Listing'
  <2>1. orderly /\ lister # p /\ Listing /\ index_dir' = index_dir /\ fresh' \subseteq fresh
    BY <1>10 DEF Halt, IInv
  <2>2. /\ lister' = lister
        /\ \A q \in Pids : q # lister' => ~Scanning(q)' /\ listed'[q] = <<>>
        /\ lister # None => Scan(call'[lister], listed'[lister], index_dir)
    BY <1>1, <2>1, ListingForgets
  <2> QED BY <2>1, <2>2 DEF Listing
<1> QED BY <1>7, <1>8, <1>9, <1>10 DEF IInv, InUse

LEMMA RestartShellStep ==
  ASSUME IInv, NEW p \in Pids, NEW q \in Pids, RestartShell(p, q)
  PROVE  IInv'
<1>1. Typing /\ Streams /\ Forgets(p)
  BY DEF IInv, RestartShell
<1>2. PICK table : table = FreeFds(p)
  OBVIOUS
<1>3. /\ table \in [Pids -> [Fds -> Descriptors]]
      /\ \A r \in Pids : r # p => table[r] = fdt[r]
      /\ \A got : \A fd \in Fds : Opened(table[p][fd], got)
  BY <1>1, <1>2, FreedTable
<1>4. fdt' = LoadPcb(q, table)
  BY <1>2 DEF RestartShell
<1>5. /\ fdt' \in [Pids -> [Fds -> Descriptors]]
      /\ \A r \in Pids : r # q => fdt'[r] = table[r]
      /\ \A got : \A fd \in Fds : Opened(fdt'[q][fd], got)
  BY <1>3, <1>4, BlankTable
<1>6. p \in pids /\ (q = p \/ q \notin pids)
  BY DEF RestartShell, IsAvailable
<1>7. Typing'
  <2>1. lister' = (IF lister = p THEN None ELSE lister) /\ lister' \in pids' \cup {None}
    BY <1>1 DEF Forgets, Typing, RestartShell
  <2>2. pids' \subseteq Pids /\ fresh' \subseteq pids' /\ orderly' \in BOOLEAN
    BY <1>1, <1>6 DEF Typing, RestartShell
  <2>3. index_dir' \in Nat
    BY <1>1, ResetNat DEF Typing, RestartShell
  <2> QED BY <1>1, <1>5, <2>1, <2>2, <2>3, ForgetsTyping DEF Typing
<1>8. call'[q] = User
  <2>1. CASE q = p
    BY <1>1, <2>1, ForgetsTyping
  <2>2. CASE q # p
    <3>1. call[q] = User
      BY <1>6, <2>2 DEF IInv
    <3> QED BY <1>1, <2>2, <3>1, ForgetsTyping
  <2> QED BY <2>1, <2>2
<1>9. Streams'
  <2>1. PICK changed \in SUBSET Pids : changed = {p, q}
    OBVIOUS
  <2>2. ASSUME NEW r \in changed
        PROVE  call'[r] = User /\ \A got : \A fd \in Fds : Opened(fdt'[r][fd], got)
    <3>1. CASE r = q
      BY <1>5, <1>8, <3>1
    <3>2. CASE r = p /\ p # q
      BY <1>1, <1>3, <1>5, <3>2, ForgetsTyping
    <3> QED BY <2>1, <3>1, <3>2
  <2>3. \A r \in Pids \ changed :
           fdt'[r] = fdt[r] /\ content'[r] = content[r] /\ call'[r] = call[r]
    BY <1>1, <1>3, <1>5, <2>1, ForgetsTyping
  <2> QED BY <1>5, <1>7, <2>2, <2>3, StreamsForget DEF Typing
<1>10. InUse'
  <2>1. ASSUME NEW r \in Pids, call'[r] # User
        PROVE  r \in pids'
    <3>1. r # p /\ call'[r] = call[r]
      BY <1>1, <2>1, ForgetsTyping
    <3> QED BY <2>1, <3>1 DEF IInv, RestartShell
  <2> QED BY <2>1 DEF InUse
<1>11. ASSUME orderly'
       PROVE  Listing'
  <2>1. orderly /\ lister # p /\ Listing /\ ~StartsOver /\ index_dir' = ResetIndexDir
    BY <1>11 DEF RestartShell, IInv
  <2>2. /\ lister' = lister
        /\ \A r \in Pids : r # lister' => ~Scanning(r)' /\ listed'[r] = <<>>
        /\ lister # None => Scan(call'[lister], listed'[lister], index_dir)
    BY <1>1, <2>1, ListingForgets
  <2>3. CASE lister = None
    <3>1. index_dir' = 0
      BY <2>1, <2>3, Sizes DEF Listing, ResetIndexDir
    <3> QED BY <2>2, <2>3, <3>1, Sizes DEF Listing
  <2>4. CASE lister # None
    <3>1. index_dir' = index_dir
      BY <2>1, <2>4 DEF StartsOver
    <3> QED BY <2>2, <2>4, <3>1 DEF Listing
  <2> QED BY <2>3, <2>4
<1> QED BY <1>7, <1>9, <1>10, <1>11 DEF IInv, InUse

---------------------------------------------------------------------------
(* open and close *)

\* One descriptor is opened or closed by the program in p.
SetsFd(p, fd, f) ==
    /\ InUser(p)
    /\ f \in Descriptors /\ Opened(f, <<>>)
    /\ fdt' = [fdt EXCEPT ![p][fd] = f]
    /\ content' = [content EXCEPT ![p][fd] = <<>>]
    /\ UNCHANGED <<pids, index_dir, call, listed, lister, fresh, orderly>>

LEMMA SetFdStep ==
  ASSUME IInv, NEW p \in Pids, NEW fd \in Fds, NEW f, SetsFd(p, fd, f)
  PROVE  IInv'
<1>1. Typing /\ Streams
  BY DEF IInv
<1>2. fdt' \in [Pids -> [Fds -> Descriptors]] /\ content' \in [Pids -> [Fds -> Seq(Bytes)]]
  <2>1. <<>> \in Seq(Bytes)
    OBVIOUS
  <2> QED BY <1>1, <2>1 DEF Typing, SetsFd
<1>3. Typing'
  BY <1>1, <1>2 DEF Typing, SetsFd
<1>4. Streams'
  <2>1. ASSUME NEW q \in Pids, NEW e \in Fds
        PROVE  Opened(fdt'[q][e], content'[q][e])
    <3>1. CASE q = p /\ e = fd
      <4>1. fdt'[q][e] = f /\ content'[q][e] = <<>>
        BY <1>1, <3>1 DEF Typing, SetsFd
      <4> QED BY <4>1 DEF SetsFd
    <3>2. CASE ~(q = p /\ e = fd)
      <4>1. fdt'[q][e] = fdt[q][e] /\ content'[q][e] = content[q][e]
        BY <1>1, <3>2 DEF Typing, SetsFd
      <4> QED BY <1>1, <4>1 DEF Streams
    <3> QED BY <3>1, <3>2
  <2>2. ASSUME NEW q \in Pids, call'[q].at = "read_data"
        PROVE  InRead(call'[q].buf, fdt'[q][call'[q].fd])
    <3>1. call' = call /\ q # p
      BY <2>2 DEF SetsFd, InUser, User
    <3>2. fdt'[q] = fdt[q]
      BY <1>1, <3>1 DEF Typing, SetsFd
    <3> QED BY <1>1, <2>2, <3>1, <3>2 DEF Streams
  <2> QED BY <2>1, <2>2 DEF Streams
<1>5. InUse'
  BY DEF IInv, InUse, SetsFd
<1>6. orderly' => Listing'
  BY DEF IInv, Listing, Scanning, SetsFd
<1> QED BY <1>3, <1>4, <1>5, <1>6 DEF IInv, InUse

LEMMA OpenStep ==
  ASSUME IInv, NEW p \in Pids, NEW name \in Files \cup {"."}, Open(p, name)
  PROVE  IInv'
<1>1. PICK fd \in Fds : OpenFd(p, fd, name) /\ content' = [content EXCEPT ![p][fd] = <<>>]
  BY DEF Open
<1>2. PICK f : f = [table |-> IF name = "." THEN "dir" ELSE "file", flags |-> 1, file_pos |-> 0,
                    inode |-> IF name = "." THEN fdt[p][fd].inode ELSE name]
  OBVIOUS
<1>3. fdt[p][fd].inode \in Files \cup {None}
  BY DEF IInv, Typing, Descriptors
<1>4. f \in Descriptors
  BY <1>2, <1>3 DEF Descriptors
<1>5. Opened(f, <<>>)
  <2>1. f.flags = 1 /\ f.file_pos = 0 /\ f.table \in {"file", "dir"}
    BY <1>2
  <2>2. ASSUME f.table = "file"
        PROVE  f.inode \in Files
    BY <1>2, <2>2
  <2>3. ASSUME f.table = "file"
        PROVE  Holds(<<>>, 0, file_size[f.inode])
    <3>1. file_size[f.inode] \in Nat
      BY <2>2, <2>3, Sizes
    <3> QED BY <3>1, HoldsNothing
  <2>4. Len(<<>>) = 0
    OBVIOUS
  <2> QED BY <2>1, <2>2, <2>3, <2>4 DEF Opened
<1>6. SetsFd(p, fd, f)
  <2>1. fdt' = [fdt EXCEPT ![p][fd] = f]
    BY <1>1, <1>2 DEF OpenFd
  <2> QED BY <1>1, <1>4, <1>5, <2>1 DEF Open, SetsFd
<1> QED BY <1>6, SetFdStep

LEMMA CloseStep ==
  ASSUME IInv, NEW p \in Pids, NEW fd \in Fds, Close(p, fd)
  PROVE  IInv'
<1>1. SetsFd(p, fd, Closed)
  BY ClosedOk DEF Close, SetsFd
<1> QED BY <1>1, SetFdStep

---------------------------------------------------------------------------
(* read *)

LEMMA FileReadStep ==
  ASSUME IInv, NEW p \in Pids, NEW fd \in Fds, NEW nbytes \in NBytes, FileRead(p, fd, nbytes)
  PROVE  IInv'
<1>1. Typing /\ Streams
  BY DEF IInv
<1>2. PICK f, c, size : f = fdt[p][fd] /\ c = content[p][fd] /\ size = file_size[f.inode]
  OBVIOUS
<1>3. f \in Descriptors /\ Opened(f, c) /\ f.flags = 1 /\ f.table = "file"
  <2>1. f \in Descriptors
    BY <1>1, <1>2 DEF Typing
  <2>2. f.flags # 0 /\ f.table = "file"
    BY <1>2 DEF FileRead
  <2>3. Opened(f, c)
    BY <1>1, <1>2 DEF Streams
  <2> QED BY <2>1, <2>2, <2>3 DEF Descriptors
<1>4. f.inode \in Files /\ f.file_pos = Len(c) /\ Holds(c, 0, size)
  BY <1>2, <1>3 DEF Opened
<1>5. size \in Nat /\ f.file_pos \in Nat /\ f.file_pos <= size
  <2>1. size \in Nat
    BY <1>2, <1>4, Sizes
  <2>2. f.file_pos \in Nat
    BY <1>3 DEF Descriptors
  <2>3. 0 + Len(c) <= size
    BY <1>4 DEF Holds
  <2> QED BY <1>4, <2>1, <2>2, <2>3
<1>6. PICK buf : buf = ReadData(size, f.file_pos, nbytes)
  OBVIOUS
<1>7. Holds(buf, f.file_pos, size)
  <2>1. nbytes \in Nat
    BY Sizes
  <2> QED BY <1>5, <1>6, <2>1, ReadDataHolds
<1>8. PICK rec : rec = [at |-> "read_data", fd |-> fd, buf |-> buf]
  OBVIOUS
<1>9. rec \in Calls /\ rec.at = "read_data" /\ rec.buf = buf /\ rec.fd = fd
  <2>1. buf \in Seq(Bytes)
    BY <1>7 DEF Holds
  <2> QED BY <1>8, <2>1 DEF Calls
<1>10. call' = [call EXCEPT ![p] = rec]
  BY <1>2, <1>6, <1>8 DEF FileRead
<1>11. Typing'
  BY <1>1, <1>9, <1>10 DEF Typing, FileRead, history
<1>12. InRead(buf, fdt[p][fd])
  BY <1>2, <1>3, <1>7 DEF InRead
<1>13. Streams'
  BY <1>1, <1>9, <1>10, <1>12 DEF Typing, Streams, FileRead, history
<1>14. InUse'
  BY <1>1, <1>10 DEF IInv, InUse, Typing, FileRead, InUser
<1>15. ASSUME orderly'
       PROVE  Listing'
  <2>1. /\ orderly /\ Listing /\ UNCHANGED <<lister, listed, index_dir, fresh>>
        /\ lister # None => lister \in Pids
    BY <1>1, <1>15 DEF IInv, FileRead, history, Typing
  <2>2. ASSUME NEW q \in Pids
        PROVE  q # p => call'[q] = call[q]
    BY <1>1, <1>10 DEF Typing
  <2>3. call'[p] = rec /\ call[p].at = "user"
    BY <1>1, <1>10 DEF Typing, FileRead, InUser, User
  <2>4. ~Scanning(p)'
    BY <1>9, <2>3 DEF Scanning
  <2>5. ASSUME NEW list, NEW index, Scan(call[p], list, index)
        PROVE  Scan(call'[p], list, index)
    BY <1>9, <2>3, <2>5 DEF Scan
  <2> QED BY <2>1, <2>2, <2>4, <2>5 DEF Listing, Scanning
<1> QED BY <1>11, <1>13, <1>14, <1>15 DEF IInv, InUse

LEMMA FileReadReturnsStep ==
  ASSUME IInv, NEW p \in Pids, FileReadReturns(p)
  PROVE  IInv'
<1>1. Typing /\ Streams
  BY DEF IInv
<1>2. PICK rec : rec = call[p]
  OBVIOUS
<1>3. rec \in Calls /\ rec.at = "read_data"
  BY <1>1, <1>2 DEF Typing, FileReadReturns
<1>4. PICK fd, buf : fd = rec.fd /\ buf = rec.buf
  OBVIOUS
<1>5. fd \in Fds /\ buf \in Seq(Bytes)
  BY <1>3, <1>4 DEF Calls, User
<1>6. PICK f, c : f = fdt[p][fd] /\ c = content[p][fd]
  OBVIOUS
<1>7. f \in Descriptors /\ Opened(f, c) /\ InRead(buf, f)
  BY <1>1, <1>2, <1>3, <1>4, <1>5, <1>6 DEF Typing, Streams
<1>8. PICK size : size = file_size[f.inode]
  OBVIOUS
<1>9. f.inode \in Files /\ f.file_pos = Len(c) /\ Holds(c, 0, size) /\ Holds(buf, f.file_pos, size)
  BY <1>7, <1>8 DEF Opened, InRead
<1>10. size \in Nat /\ f.file_pos \in Nat
  BY <1>7, <1>8, <1>9, Sizes DEF Descriptors
<1>11. PICK d : d = c \o buf
  OBVIOUS
<1>12. Holds(d, 0, size) /\ Len(d) = f.file_pos + Len(buf)
  BY <1>9, <1>10, <1>11, HoldsMore
<1>13. PICK g : g = [f EXCEPT !.file_pos = @ + Len(buf)]
  OBVIOUS
<1>14. g \in Descriptors /\ Opened(g, d)
  <2>1. Len(buf) \in Nat
    BY <1>5, LenProperties
  <2>2. /\ g \in Descriptors /\ g.flags = f.flags /\ g.table = f.table /\ g.inode = f.inode
        /\ g.file_pos = f.file_pos + Len(buf)
    BY <1>7, <1>10, <1>13, <2>1 DEF Descriptors
  <2>3. f.flags = 1 /\ f.table = "file"
    BY <1>7 DEF InRead
  <2> QED BY <1>8, <1>9, <1>12, <2>2, <2>3 DEF Opened
<1>15. d \in Seq(Bytes)
  BY <1>12 DEF Holds
<1>16. fdt' = [fdt EXCEPT ![p][fd] = g] /\ content' = [content EXCEPT ![p][fd] = d]
  <2>1. fdt' = [fdt EXCEPT ![p][fd].file_pos = @ + Len(buf)]
    BY <1>2, <1>4 DEF FileReadReturns
  <2>2. fdt' = [fdt EXCEPT ![p][fd] = g]
    BY <1>1, <1>5, <1>6, <1>13, <2>1 DEF Typing
  <2>3. content' = [content EXCEPT ![p][fd] = @ \o buf]
    BY <1>2, <1>4 DEF FileReadReturns
  <2>4. content' = [content EXCEPT ![p][fd] = d]
    BY <1>1, <1>5, <1>6, <1>11, <2>3 DEF Typing
  <2> QED BY <2>2, <2>4
<1>17. Typing'
  <2>1. fdt' \in [Pids -> [Fds -> Descriptors]] /\ content' \in [Pids -> [Fds -> Seq(Bytes)]]
    BY <1>1, <1>5, <1>14, <1>15, <1>16 DEF Typing
  <2>2. call' \in [Pids -> Calls]
    BY <1>1 DEF Typing, FileReadReturns, Calls
  <2> QED BY <1>1, <2>1, <2>2 DEF Typing, FileReadReturns
<1>18. Streams'
  <2>1. ASSUME NEW q \in Pids, NEW e \in Fds
        PROVE  Opened(fdt'[q][e], content'[q][e])
    <3>1. CASE q = p /\ e = fd
      <4>1. fdt'[q][e] = g /\ content'[q][e] = d
        BY <1>1, <1>16, <3>1 DEF Typing
      <4> QED BY <1>14, <4>1
    <3>2. CASE ~(q = p /\ e = fd)
      <4>1. fdt'[q][e] = fdt[q][e] /\ content'[q][e] = content[q][e]
        BY <1>1, <1>16, <3>2 DEF Typing
      <4> QED BY <1>1, <4>1 DEF Streams
    <3> QED BY <3>1, <3>2
  <2>2. ASSUME NEW q \in Pids, call'[q].at = "read_data"
        PROVE  InRead(call'[q].buf, fdt'[q][call'[q].fd])
    <3>1. q # p /\ call'[q] = call[q]
      BY <1>1, <2>2 DEF FileReadReturns, User, Typing
    <3>2. fdt'[q] = fdt[q]
      BY <1>1, <1>16, <3>1 DEF Typing
    <3> QED BY <1>1, <2>2, <3>1, <3>2 DEF Streams
  <2> QED BY <2>1, <2>2 DEF Streams
<1>19. InUse'
  BY <1>1 DEF IInv, InUse, Typing, FileReadReturns
<1>20. ASSUME orderly'
       PROVE  Listing'
  <2>1. /\ orderly /\ Listing /\ UNCHANGED <<lister, listed, index_dir, fresh>>
        /\ lister # None => lister \in Pids
    BY <1>1, <1>20 DEF IInv, FileReadReturns, Typing
  <2>2. \A q \in Pids : q # p => call'[q] = call[q]
    BY <1>1 DEF Typing, FileReadReturns
  <2>3. call'[p].at = "user" /\ call[p].at = "read_data"
    BY <1>1 DEF Typing, FileReadReturns, User
  <2>4. ~Scanning(p)'
    BY <2>3 DEF Scanning
  <2>5. ASSUME NEW list, NEW index, Scan(call[p], list, index)
        PROVE  Scan(call'[p], list, index)
    BY <2>3, <2>5 DEF Scan
  <2> QED BY <2>1, <2>2, <2>4, <2>5 DEF Listing, Scanning
<1> QED BY <1>17, <1>18, <1>19, <1>20 DEF IInv, InUse

---------------------------------------------------------------------------
(* dir_read *)

\* A step of dir_read() by p, which is rec after it.
Dir(p, rec) ==
    /\ p \in pids
    /\ rec \in Calls /\ rec.at # "read_data"
    /\ call' = [call EXCEPT ![p] = rec]
    /\ UNCHANGED <<pids, fdt, content>>

LEMMA DirStreams ==
  ASSUME IInv, NEW p \in Pids, NEW rec, Dir(p, rec)
  PROVE  /\ call' \in [Pids -> Calls] /\ Streams' /\ InUse'
         /\ call'[p] = rec /\ \A q \in Pids \ {p} : call'[q] = call[q]
<1>1. Typing /\ Streams
  BY DEF IInv
<1>2. call'[p] = rec /\ \A q \in Pids \ {p} : call'[q] = call[q]
  BY <1>1 DEF Dir, Typing
<1>3. call' \in [Pids -> Calls]
  BY <1>1 DEF Dir, Typing
<1>4. \A q \in Pids : call'[q].at = "read_data" => call'[q] = call[q]
  BY <1>2 DEF Dir
<1>5. Streams'
  BY <1>1, <1>4 DEF Dir, Streams
<1>6. InUse'
  BY <1>2 DEF Dir, IInv, InUse
<1> QED BY <1>2, <1>3, <1>5, <1>6

\* Only the program that is listing is disturbed, if anyone.
LEMMA DirListing ==
  ASSUME IInv, Listing, NEW p \in Pids, NEW rec, Dir(p, rec), Scanning(p), lister' = lister,
         listed' \in [Pids -> Seq(Nat)], \A q \in Pids \ {p} : listed'[q] = listed[q],
         Scan(rec, listed'[p], index_dir')
  PROVE  Listing'
<1>1. lister = p /\ p # None
  BY NoneIsNew DEF Listing
<1>2. ASSUME NEW q \in Pids, q # p
      PROVE  ~Scanning(q)' /\ listed'[q] = <<>>
  BY <1>1, <1>2, DirStreams DEF Listing, Scanning
<1>3. Scan(call'[p], listed'[p], index_dir')
  BY DirStreams
<1> QED BY <1>1, <1>2, <1>3 DEF Listing

LEMMA DirReadStep ==
  ASSUME IInv, NEW p \in Pids, NEW fd \in Fds, DirRead(p, fd)
  PROVE  IInv'
<1>1. Typing
  BY DEF IInv
<1>2. PICK rec : rec = [at |-> IF EndOfDirectory THEN "end" ELSE "dentry"]
  OBVIOUS
<1>3. Dir(p, rec)
  <2>1. rec \in Calls /\ rec.at # "read_data"
    BY <1>2 DEF Calls
  <2> QED BY <1>2, <2>1 DEF Dir, DirRead, InUser
<1>4. Typing'
  BY <1>1, <1>3, DirStreams DEF Typing, DirRead, Lists, InUser
<1>5. ASSUME orderly'
      PROVE  Listing'
  <2>1. orderly /\ Listing /\ (lister = p \/ (lister = None /\ p \in fresh)) /\ lister' = p
    BY <1>5 DEF IInv, DirRead, Lists
  <2>2. UNCHANGED <<index_dir, listed, fresh>> /\ p # None
    BY NoneIsNew DEF DirRead
  <2>3. ASSUME NEW q \in Pids, q # p
        PROVE  ~Scanning(q)' /\ listed'[q] = <<>>
    <3>1. q # lister
      BY <2>1, <2>3, NoneIsNew
    <3> QED BY <1>3, <2>1, <2>2, <2>3, <3>1, DirStreams DEF Listing, Scanning
  <2>4. index_dir = Len(listed[p]) /\ index_dir <= num_dir_entries
        /\ \A i \in 1 .. Len(listed[p]) : listed[p][i] = i - 1
    <3>1. CASE lister = p
      BY <2>1, <2>2, <3>1 DEF Listing, Scan
    <3>2. CASE lister = None /\ p \in fresh
      <4>1. index_dir = 0
        BY <2>1, <3>2 DEF Listing
      <4>2. listed[p] = <<>>
        BY <2>1, <2>2, <3>2 DEF Listing
      <4>3. PICK s, z : s = <<>> /\ z = 0
        OBVIOUS
      <4>4. Len(s) = 0 /\ z \in Nat
        BY <4>3
      <4> QED BY <4>1, <4>2, <4>3, <4>4, Sizes
    <3> QED BY <2>1, <3>1, <3>2
  <2>5. Scan(rec, listed[p], index_dir)
    BY <1>1, <1>2, <2>4, Sizes DEF Scan, EndOfDirectory, Typing
  <2>6. Scan(call'[p], listed'[p], index_dir')
    BY <1>3, <2>2, <2>5, DirStreams
  <2> QED BY <2>1, <2>2, <2>3, <2>6 DEF Listing
<1> QED BY <1>3, <1>4, <1>5, DirStreams DEF IInv, InUse

LEMMA DirReadEndsStep ==
  ASSUME IInv, NEW p \in Pids, DirReadEnds(p)
  PROVE  IInv'
<1>1. Typing
  BY DEF IInv
<1>2. Dir(p, User)
  <2>1. User \in Calls /\ User.at # "read_data"
    BY DEF Calls, User
  <2> QED BY <2>1 DEF Dir, DirReadEnds
<1>3. listed' \in [Pids -> Seq(Nat)] /\ listed'[p] = <<>>
      /\ \A q \in Pids \ {p} : listed'[q] = listed[q]
  <2>1. <<>> \in Seq(Nat)
    OBVIOUS
  <2> QED BY <1>1, <2>1 DEF Typing, DirReadEnds
<1>4. Typing'
  BY <1>1, <1>2, <1>3, DirStreams DEF Typing, DirReadEnds
<1>5. ASSUME orderly'
      PROVE  Listing'
  <2>1. orderly /\ Listing
    BY <1>5 DEF IInv, DirReadEnds
  <2>2. lister = p /\ lister' = None /\ fresh' = {} /\ index_dir' = index_dir
    BY <2>1 DEF Listing, Scanning, DirReadEnds
  <2>3. index_dir = num_dir_entries
    BY <2>1, <2>2, NoneIsNew DEF Listing, Scan, DirReadEnds
  <2>4. ASSUME NEW q \in Pids
        PROVE  ~Scanning(q)' /\ listed'[q] = <<>>
    <3>1. CASE q = p
      BY <1>2, <1>3, <3>1, DirStreams DEF Scanning, User
    <3>2. CASE q # p
      BY <1>2, <1>3, <2>1, <2>2, <3>2, DirStreams DEF Listing, Scanning
    <3> QED BY <3>1, <3>2
  <2> QED BY <2>2, <2>3, <2>4 DEF Listing
<1> QED BY <1>2, <1>4, <1>5, DirStreams DEF IInv, InUse

LEMMA ReadDentryByIndexStep ==
  ASSUME IInv, NEW p \in Pids, ReadDentryByIndex(p)
  PROVE  IInv'
<1>1. Typing /\ index_dir \in Nat
  BY DEF IInv, Typing
<1>2. PICK rec : rec = [at |-> "increment",
                        name |-> IF index_dir < num_dir_entries THEN index_dir ELSE None]
  OBVIOUS
<1>3. Dir(p, rec)
  <2>1. rec \in Calls /\ rec.at # "read_data"
    BY <1>1, <1>2 DEF Calls
  <2> QED BY <1>2, <2>1 DEF Dir, ReadDentryByIndex, history
<1>4. Typing'
  BY <1>1, <1>3, DirStreams DEF Typing, ReadDentryByIndex, history
<1>5. ASSUME orderly'
      PROVE  Listing'
  <2>1. orderly /\ Listing /\ UNCHANGED <<index_dir, listed, lister>> /\ Scanning(p)
    BY <1>5 DEF IInv, ReadDentryByIndex, Scanning, history
  <2>2. Scan(call[p], listed[p], index_dir)
    BY <2>1, NoneIsNew DEF Listing
  <2>3. Scan(rec, listed'[p], index_dir')
    BY <1>2, <2>1, <2>2 DEF Scan, ReadDentryByIndex
  <2> QED BY <1>1, <1>3, <2>1, <2>3, DirListing DEF Typing
<1> QED BY <1>3, <1>4, <1>5, DirStreams DEF IInv, InUse

LEMMA LoadIndexDirStep ==
  ASSUME IInv, NEW p \in Pids, LoadIndexDir(p)
  PROVE  IInv'
<1>1. Typing /\ index_dir \in Nat
  BY DEF IInv, Typing
<1>2. PICK name : name = call[p].name
  OBVIOUS
<1>3. name \in Nat \cup {None}
  <2>1. call[p] \in Calls /\ call[p].at = "increment"
    BY <1>1 DEF Typing, LoadIndexDir
  <2> QED BY <1>2, <2>1 DEF Calls, User
<1>4. PICK rec : rec = [at |-> "store", name |-> name, eax |-> index_dir]
  OBVIOUS
<1>5. Dir(p, rec)
  <2>1. rec \in Calls /\ rec.at # "read_data"
    BY <1>1, <1>3, <1>4 DEF Calls
  <2>2. call' = [call EXCEPT ![p] = rec]
    BY <1>1, <1>2, <1>4 DEF LoadIndexDir, Typing
  <2> QED BY <2>1, <2>2 DEF Dir, LoadIndexDir, history
<1>6. Typing'
  BY <1>1, <1>5, DirStreams DEF Typing, LoadIndexDir, history
<1>7. ASSUME orderly'
      PROVE  Listing'
  <2>1. orderly /\ Listing /\ UNCHANGED <<index_dir, listed, lister>> /\ Scanning(p)
    BY <1>7 DEF IInv, LoadIndexDir, Scanning, history
  <2>2. Scan(call[p], listed[p], index_dir)
    BY <2>1, NoneIsNew DEF Listing
  <2>3. Scan(rec, listed'[p], index_dir')
    BY <1>2, <1>4, <2>1, <2>2 DEF Scan, LoadIndexDir
  <2> QED BY <1>1, <1>5, <2>1, <2>3, DirListing DEF Typing
<1> QED BY <1>5, <1>6, <1>7, DirStreams DEF IInv, InUse

LEMMA DirReadReturnsStep ==
  ASSUME IInv, NEW p \in Pids, DirReadReturns(p)
  PROVE  IInv'
<1>1. Typing
  BY DEF IInv
<1>2. PICK name, eax, list : name = call[p].name /\ eax = call[p].eax /\ list = listed[p]
  OBVIOUS
<1>3. name \in Nat \cup {None} /\ eax \in Nat /\ list \in Seq(Nat)
  <2>1. call[p] \in Calls /\ call[p].at = "store"
    BY <1>1 DEF Typing, DirReadReturns
  <2>2. name \in Nat \cup {None} /\ eax \in Nat
    BY <1>2, <2>1 DEF Calls, User
  <2> QED BY <1>1, <1>2, <2>2 DEF Typing
<1>4. PICK more : more = IF name = None THEN list ELSE Append(list, name)
  OBVIOUS
<1>5. more \in Seq(Nat)
  BY <1>3, <1>4, AppendProperties
<1>6. Dir(p, User)
  <2>1. User \in Calls /\ User.at # "read_data"
    BY DEF Calls, User
  <2> QED BY <2>1 DEF Dir, DirReadReturns
<1>7. listed' = [listed EXCEPT ![p] = more]
  BY <1>1, <1>2, <1>4 DEF DirReadReturns, Typing
<1>8. Typing'
  <2>1. listed' \in [Pids -> Seq(Nat)] /\ index_dir' \in Nat
    BY <1>1, <1>2, <1>3, <1>5, <1>7 DEF Typing, DirReadReturns
  <2> QED BY <1>1, <1>6, <2>1, DirStreams DEF Typing, DirReadReturns
<1>9. ASSUME orderly'
      PROVE  Listing'
  <2>1. orderly /\ Listing /\ lister' = lister /\ Scanning(p)
    BY <1>9 DEF IInv, DirReadReturns, Scanning
  <2>2. Scan(call[p], list, index_dir)
    BY <1>2, <2>1, NoneIsNew DEF Listing
  <2>3. /\ index_dir = Len(list) /\ index_dir < num_dir_entries
        /\ name = index_dir /\ eax = index_dir
        /\ \A i \in 1 .. Len(list) : list[i] = i - 1
    BY <1>2, <2>2 DEF Scan, DirReadReturns
  <2>4. name # None /\ more = Append(list, name)
    BY <1>3, <1>4, <2>3, NoneIsNew
  <2>5. name \in Nat
    BY <1>3, <2>4
  <2>6. /\ Len(more) = Len(list) + 1 /\ more[Len(list) + 1] = name
        /\ \A i \in 1 .. Len(list) : more[i] = list[i]
    BY <1>3, <2>4, <2>5, AppendProperties
  <2>7. Len(list) \in Nat
    BY <1>3, LenProperties
  <2>8. \A i \in 1 .. Len(more) : more[i] = i - 1
    BY <2>3, <2>6, <2>7
  <2>9. index_dir' = Len(more) /\ index_dir' <= num_dir_entries
    BY <1>2, <2>3, <2>6, <2>7, Sizes DEF DirReadReturns
  <2>10. Scan(User, more, index_dir')
    BY <2>8, <2>9 DEF Scan, User
  <2>11. listed'[p] = more /\ \A q \in Pids \ {p} : listed'[q] = listed[q]
    BY <1>1, <1>7 DEF Typing
  <2> QED BY <1>6, <1>8, <2>1, <2>10, <2>11, DirListing DEF Typing
<1> QED BY <1>6, <1>8, <1>9, DirStreams DEF IInv, InUse

---------------------------------------------------------------------------
(* The theorems *)

LEMMA NextIInv == IInv /\ [Next]_vars => IInv'
<1> SUFFICES ASSUME IInv, [Next]_vars PROVE IInv'
  OBVIOUS
<1>1. ASSUME NEW p \in Pids, NEW q \in Pids, RestartShell(p, q)
      PROVE  IInv'
  BY <1>1, RestartShellStep
<1>2. ASSUME NEW p \in Pids, NEW name \in Files \cup {"."}, Open(p, name)
      PROVE  IInv'
  BY <1>2, OpenStep
<1>3. ASSUME NEW p \in Pids, NEW fd \in Fds, Close(p, fd) \/ DirRead(p, fd)
      PROVE  IInv'
  BY <1>3, CloseStep, DirReadStep
<1>4. ASSUME NEW p \in Pids, NEW fd \in Fds, NEW nbytes \in NBytes, FileRead(p, fd, nbytes)
      PROVE  IInv'
  BY <1>4, FileReadStep
<1>5. ASSUME NEW p \in Pids,
             \/ Execute(p) \/ Halt(p) \/ FileReadReturns(p)
             \/ DirReadEnds(p) \/ ReadDentryByIndex(p) \/ LoadIndexDir(p) \/ DirReadReturns(p)
      PROVE  IInv'
  BY <1>5, ExecuteStep, HaltStep, FileReadReturnsStep, DirReadEndsStep, ReadDentryByIndexStep,
     LoadIndexDirStep, DirReadReturnsStep
<1>6. CASE UNCHANGED vars
  <2>1. Typing' /\ InUse'
    BY <1>6 DEF vars, history, IInv, Typing, InUse
  <2>2. Streams'
    BY <1>6 DEF vars, history, IInv, Streams
  <2>3. orderly' => Listing'
    BY <1>6 DEF vars, history, IInv, Listing, Scanning
  <2> QED BY <2>1, <2>2, <2>3 DEF IInv, InUse
<1> QED BY <1>1, <1>2, <1>3, <1>4, <1>5, <1>6 DEF Next

\* IInv holds in every state, for any number of processes and files of any size.
THEOREM Invariance == Spec => []IInv
BY InitIInv, NextIInv, PTL DEF Spec

\* Every variable keeps its type, and no file_pos is beyond the longest file.
THEOREM Types == Spec => []TypeOK
<1>1. ASSUME IInv
      PROVE  TypeOK
  <2>1. Typing /\ Streams
    BY <1>1 DEF IInv
  <2>2. ASSUME NEW p \in Pids, NEW fd \in Fds
        PROVE  fdt[p][fd].file_pos \in Positions
    <3>1. PICK f, c : f = fdt[p][fd] /\ c = content[p][fd]
      OBVIOUS
    <3>2. f \in Descriptors /\ Opened(f, c)
      BY <2>1, <3>1 DEF Typing, Streams
    <3>3. CASE f.file_pos = 0
      BY <3>1, <3>3 DEF Positions
    <3>4. CASE f.file_pos # 0
      <4>1. /\ f.inode \in Files /\ f.file_pos \in Nat /\ f.file_pos = Len(c)
            /\ 0 + Len(c) <= file_size[f.inode]
        BY <3>2, <3>4 DEF Descriptors, Opened, Holds
      <4>2. f.file_pos \in 0 .. file_size[f.inode]
        BY <4>1, Sizes
      <4> QED BY <3>1, <4>1, <4>2 DEF Positions
    <3> QED BY <3>3, <3>4
  <2>3. fdt \in [Pids -> [Fds -> [table : {"file", "dir", None}, flags : {0, 1},
                                  file_pos : Positions, inode : Files \cup {None}]]]
    <3>1. ASSUME NEW p \in Pids, NEW fd \in Fds
          PROVE  fdt[p][fd] \in [table : {"file", "dir", None}, flags : {0, 1},
                                 file_pos : Positions, inode : Files \cup {None}]
      <4>1. PICK f : f = fdt[p][fd]
        OBVIOUS
      <4>2. f \in Descriptors /\ f.file_pos \in Positions
        BY <2>1, <2>2, <4>1 DEF Typing
      <4> QED BY <4>1, <4>2 DEF Descriptors
    <3> QED BY <2>1, <3>1 DEF Typing
  <2>4. ASSUME NEW p \in Pids
        PROVE  call[p].at \in {"user", "read_data", "end", "dentry", "increment", "store"}
    <3>1. PICK rec : rec = call[p]
      OBVIOUS
    <3>2. rec \in Calls
      BY <2>1, <3>1 DEF Typing
    <3> QED BY <3>1, <3>2 DEF Calls, User
  <2> QED BY <2>1, <2>3, <2>4 DEF Typing, TypeOK
<1> QED BY <1>1, Invariance, PTL

\* A program that reads a file gets its bytes from the first on, none twice and
\* none left out, whatever other programs open, read, close or are killed at.
THEOREM StreamsIntact == Spec => []StreamIntact
<1>1. ASSUME IInv
      PROVE  StreamIntact
  <2>1. ASSUME NEW p \in Pids, NEW fd \in Fds,
               fdt[p][fd].flags = 1, fdt[p][fd].table = "file"
        PROVE  /\ fdt[p][fd].file_pos = Len(content[p][fd])
               /\ Len(content[p][fd]) <= file_size[fdt[p][fd].inode]
               /\ \A i \in 1 .. Len(content[p][fd]) : content[p][fd][i] = Byte(i - 1)
    <3>1. PICK f, c, size : f = fdt[p][fd] /\ c = content[p][fd] /\ size = file_size[f.inode]
      OBVIOUS
    <3>2. f.file_pos = Len(c) /\ Holds(c, 0, size)
      BY <1>1, <2>1, <3>1 DEF IInv, Streams, Opened
    <3>3. Len(c) \in Nat /\ 0 + Len(c) <= size
      BY <3>2, LenProperties DEF Holds
    <3>4. size \in Nat
      BY <1>1, <2>1, <3>1, Sizes DEF IInv, Streams, Opened
    <3>5. ASSUME NEW i \in 1 .. Len(c)
          PROVE  c[i] = Byte(i - 1)
      <4>1. 0 + i - 1 = i - 1
        BY <3>3
      <4> QED BY <3>2, <4>1 DEF Holds
    <3> QED BY <3>1, <3>2, <3>3, <3>4, <3>5
  <2>2. pids \subseteq Pids
    BY <1>1 DEF IInv, Typing
  <2> QED BY <2>1, <2>2 DEF StreamIntact, Byte
<1> QED BY <1>1, Invariance, PTL

\* A program that is told that the directory has ended has read every entry of
\* it once, in order, if listings did not overlap, were not killed and not
\* started over by execute().
THEOREM ListingsComplete == Spec => []ListingComplete
<1>1. ASSUME IInv, NEW p \in Pids, call[p].at = "end", orderly
      PROVE  listed[p] = [i \in 1 .. num_dir_entries |-> i - 1]
  <2>1. Typing /\ Listing
    BY <1>1 DEF IInv
  <2>2. Scan(call[p], listed[p], index_dir)
    BY <1>1, <2>1, NoneIsNew DEF Listing, Scanning
  <2>3. PICK list : list = listed[p]
    OBVIOUS
  <2>4. list \in Seq(Nat) /\ Len(list) = num_dir_entries
        /\ \A i \in 1 .. Len(list) : list[i] = i - 1
    BY <1>1, <2>1, <2>2, <2>3 DEF Typing, Scan
  <2>5. list = [i \in 1 .. Len(list) |-> list[i]]
    BY <2>4
  <2> QED BY <2>3, <2>4, <2>5
<1>2. IInv => ListingComplete
  BY <1>1 DEF ListingComplete
<1> QED BY <1>2, Invariance, PTL
=============================================================================
