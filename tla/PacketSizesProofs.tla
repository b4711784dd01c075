-------------------------- MODULE PacketSizesProofs --------------------------
(* Proofs about PacketSizes, for texts of every length the packets hold. *)
EXTENDS PacketSizes, TLAPS

\* Rounds(n) is the least number of blocks that hold n bytes.
LEMMA RoundsLemma ==
    ASSUME NEW n \in Nat
    PROVE  /\ Rounds(n) \in Nat
           /\ n <= Block * Rounds(n)
           /\ Block * Rounds(n) < n + Block
BY SMT DEF Rounds, Block

\* What fills its blocks is as many blocks again.
LEMMA RoundsOfBlocks ==
    ASSUME NEW r \in Nat
    PROVE  Rounds(Block * r) = r
BY SMT DEF Rounds, Block

\* 16 bits are enough.
LEMMA NarrowLemma ==
    ASSUME NEW n \in Nat, n < 65536
    PROVE  Narrow(n) = n
BY DEF Narrow

\* The size of the packet of a text.
LEMMA ComposeLemma ==
    ASSUME NEW n \in Nat, n <= MaxText
    PROVE  /\ Narrow(n) = n
           /\ Narrow(DataHeaderSize + LengthSize + n * CharSize)
                = DataHeaderSize + LengthSize + CharSize * n
           /\ DataHeaderSize + LengthSize + CharSize * n \in Nat
           /\ DataHeaderSize + LengthSize + CharSize * n <= Capacity
<1>1. Narrow(n) = n
  BY NarrowLemma DEF MaxText
<1>2. 8 + 2 + n * 2 \in Nat /\ 8 + 2 + n * 2 <= 32768 /\ 8 + 2 + n * 2 = 8 + 2 + 2 * n
  BY DEF MaxText
<1>3. Narrow(8 + 2 + n * 2) = 8 + 2 + n * 2
  BY <1>2, NarrowLemma
<1> QED BY <1>1, <1>2, <1>3 DEF DataHeaderSize, LengthSize, CharSize, Capacity

\* What crypt() makes of a packet fits crypted_data and its 16-bit size.
LEMMA CryptLemma ==
    ASSUME NEW n \in Nat, n <= Capacity
    PROVE  /\ Rounds(n) \in Nat /\ Block * Rounds(n) <= Capacity
           /\ Narrow(HeaderSize + Rounds(n) * Block) = HeaderSize + Block * Rounds(n)
           /\ HeaderSize + Block * Rounds(n) \in Nat
           /\ HeaderSize + Block * Rounds(n) <= HeaderSize + Capacity
<1>1. PICK r \in Nat : r = Rounds(n) /\ 16 * r < n + 16
  BY RoundsLemma DEF Block
<1>2. 16 * r <= 32768
  BY <1>1 DEF Capacity
<1>3. 34 + r * 16 = 34 + 16 * r /\ 34 + 16 * r \in Nat /\ 34 + 16 * r <= 34 + 32768
  BY <1>2
<1>4. Narrow(34 + r * 16) = 34 + 16 * r
  BY <1>3, NarrowLemma
<1> QED BY <1>1, <1>2, <1>3, <1>4 DEF Block, HeaderSize, Capacity

\* What decrypt() takes for the size of the data is what crypt() encrypted.
LEMMA DecryptLemma ==
    ASSUME NEW r \in Nat
    PROVE  (HeaderSize + Block * r) - HeaderSize = Block * r
BY DEF HeaderSize, Block

\* The inductive invariant: what each stage has computed so far.
IInv ==
    /\ TypeOK
    /\ stage = "new" => text = 0
    /\ stage # "new" /\ text > 0 => size = TextEnd
    /\ stage \in {"crypted", "decrypted"} =>
        rounds = Rounds(size) /\ total = HeaderSize + Block * rounds
    /\ stage = "decrypted" => undone = rounds

LEMMA InitHolds == Init => IInv
<1> SUFFICES ASSUME Init PROVE IInv
  OBVIOUS
<1>1. TypeOK
  BY DEF Init, TypeOK, MaxText, Capacity, HeaderSize, Block
<1> QED BY <1>1 DEF Init, IInv

LEMMA StepHolds == IInv /\ [Next]_vars => IInv'
<1> SUFFICES ASSUME IInv, [Next]_vars PROVE IInv'
  OBVIOUS
<1>1. TypeOK
  BY DEF IInv
<1>2. ASSUME NEW n \in Length, Compose(n) PROVE IInv'
  <2>1. n \in Nat /\ n <= MaxText
    <3>1. n \in 0 .. MaxText
      BY LengthAssumption
    <3> QED BY <3>1 DEF MaxText
  <2>2. text' = n /\ size' = DataHeaderSize + LengthSize + CharSize * n
    BY <1>2, <2>1, ComposeLemma DEF Compose
  <2>3. stage' = "composed" /\ UNCHANGED <<rounds, total, undone>>
    BY <1>2 DEF Compose
  <2>4. TypeOK'
    BY <1>1, <2>1, <2>2, <2>3, ComposeLemma DEF TypeOK
  <2> QED BY <2>2, <2>3, <2>4 DEF IInv, TextEnd
<1>3. CASE ComposeFixed
  <2>1. text' = 0 /\ stage' = "composed" /\ UNCHANGED <<rounds, total, undone>>
    BY <1>3 DEF ComposeFixed, IInv
  <2>2. size' \in {8, 10}
    BY <1>3 DEF ComposeFixed, DataHeaderSize
  <2>3. size' \in Nat /\ size' <= Capacity /\ 0 <= MaxText
    BY <2>2 DEF Capacity, MaxText
  <2>4. TypeOK'
    BY <1>1, <2>1, <2>3 DEF TypeOK
  <2> QED BY <2>1, <2>4 DEF IInv
<1>4. CASE Crypt
  <2>1. stage = "composed" /\ stage' = "crypted" /\ UNCHANGED <<text, size, undone>>
    BY <1>4 DEF Crypt
  <2>2. rounds' = Rounds(size) /\ total' = Narrow(HeaderSize + rounds' * Block)
    BY <1>4 DEF Crypt
  <2>3. size \in Nat /\ size <= Capacity
    BY <1>1 DEF TypeOK
  <2>4. /\ rounds' \in Nat /\ Block * rounds' <= Capacity
        /\ total' \in Nat /\ total' <= HeaderSize + Capacity
        /\ total' = HeaderSize + Block * rounds'
    BY <2>2, <2>3, CryptLemma
  <2>5. TypeOK'
    BY <1>1, <2>1, <2>4 DEF TypeOK
  <2> QED BY <2>1, <2>2, <2>4, <2>5 DEF IInv, TextEnd
<1>5. CASE Decrypt
  <2>1. stage = "crypted" /\ stage' = "decrypted" /\ UNCHANGED <<text, size, rounds, total>>
    BY <1>5 DEF Decrypt
  <2>2. rounds \in Nat /\ rounds = Rounds(size) /\ total = HeaderSize + Block * rounds
    BY <1>1, <2>1 DEF IInv, TypeOK
  <2>3. undone' = Rounds(Block * rounds)
    <3>1. undone' = Rounds(total - HeaderSize)
      BY <1>5 DEF Decrypt
    <3>2. total - HeaderSize = Block * rounds
      BY <2>2, DecryptLemma
    <3> QED BY <3>1, <3>2
  <2>4. undone' = rounds
    BY <2>2, <2>3, RoundsOfBlocks
  <2>5. TypeOK'
    BY <1>1, <2>1, <2>4 DEF TypeOK
  <2> QED BY <2>1, <2>2, <2>4, <2>5 DEF IInv, TextEnd
<1>6. CASE UNCHANGED vars
  BY <1>6 DEF vars, IInv, TypeOK, TextEnd
<1> QED BY <1>2, <1>3, <1>4, <1>5, <1>6 DEF Next

LEMMA Inductive == Spec => []IInv
BY InitHolds, StepHolds, PTL DEF Spec

\* No size outgrows its 16 bits, and no packet its array.
THEOREM SizesFit == Spec => []TypeOK
<1>1. IInv => TypeOK
  BY DEF IInv
<1> QED BY <1>1, Inductive, PTL

\* A text of any length that fits its packet arrives whole: crypt() and decrypt()
\* count the same blocks, and these hold the text.
THEOREM WholeTextArrives == Spec => []TextArrives
<1>1. IInv => TextArrives
  <2>1. SUFFICES ASSUME IInv, stage = "decrypted"
                 PROVE  /\ undone = rounds
                        /\ HeaderSize + Block * undone <= total
                        /\ text > 0 => TextEnd <= Block * undone
    BY DEF TextArrives
  <2>2. size \in Nat /\ rounds = Rounds(size) /\ undone = rounds
    BY <2>1 DEF IInv, TypeOK
  <2>3. total = HeaderSize + Block * rounds /\ total \in Nat
    BY <2>1 DEF IInv, TypeOK
  <2>4. size <= Block * Rounds(size)
    BY <2>2, RoundsLemma
  <2>5. text > 0 => size = TextEnd
    BY <2>1 DEF IInv
  <2>6. text > 0 => TextEnd <= Block * undone
    BY <2>2, <2>4, <2>5
  <2>7. HeaderSize + Block * undone = total /\ total <= total
    BY <2>2, <2>3
  <2> QED BY <2>2, <2>6, <2>7
<1> QED BY <1>1, Inductive, PTL
=============================================================================
