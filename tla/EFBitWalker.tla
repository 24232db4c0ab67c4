---------------------------- MODULE EFBitWalker -----------------------------
(***************************************************************************)
(* EFBitWalker.c: fields of bits written to and read from a file at a      *)
(* cursor of a byte position and a bit index.  The file is a sequence of   *)
(* bits, least significant bit of the first byte first, so that the window *)
(* EFEndianLoadWindowLE makes of nine bytes is a stretch of the file and   *)
(* shifts are differences of indices.  A walker reads and writes through a *)
(* copy of a file handle, which shares its offset with the original; every *)
(* call seeks first.  Calls on one file are not concurrent.                *)
(***************************************************************************)
EXTENDS Integers, Sequences

CONSTANTS Walker,     \* walkers over the file
          B,          \* bits in a byte (8)
          Window,     \* bytes in the window of a read or write (9)
          Values,     \* Values[e]: what walkers of byte order e write, each value
                      \* a sequence of numBits bits, at most (Window - 1) * B
          Buffers,    \* bytes written by EFBitWalkerWriteBuffer
          Skips,      \* distances skipped, negative ones included
          MaxBytes    \* bound on the length of the file and on cursors

ASSUME BitWalkerAssumption ==
    /\ B \in Nat \ {0} /\ Window \in Nat \ {0} /\ MaxBytes \in Nat
    /\ \A e \in {"little", "big"} :
          Values[e] \subseteq UNION {[1..n -> {0, 1}] : n \in 1..(Window - 1) * B}
    /\ Buffers \subseteq [1..B -> {0, 1}]
    /\ Skips \subseteq Int

VARIABLES file,     \* the bits of the file, a multiple of B of them
          offset,   \* the offset of the shared open file description
          bytePos,  \* bytePos[w] and bitIndex[w]: the cursor of walker w
          bitIndex,
          endian,   \* endian[w]: the byte order w was created with
          fields    \* what has been written and not touched since

walkerVars == <<file, offset, bytePos, bitIndex, endian, fields>>

Larger(x, y) == IF x > y THEN x ELSE y
Smaller(x, y) == IF x < y THEN x ELSE y
Bytes == Len(file) \div B

\* Past its end the file reads as the zeros the window is initialised with.
Bit(i) == IF i < Len(file) THEN file[i + 1] ELSE 0

\* The file holds one byte.
InitWalker == /\ file \in Buffers
              /\ offset = 0
              /\ bytePos = [w \in Walker |-> 0]
              /\ bitIndex = [w \in Walker |-> 0]
              /\ endian \in [Walker -> {"little", "big"}]
              /\ fields = {[start |-> 0, value |-> file, endian |-> "little"]}

(***************************************************************************)
(* Conversions.  A value is the sequence of its bits.                      *)
(***************************************************************************)

NumBytes(n) == (n + B - 1) \div B
Pad(v, n) == [i \in 1..n |-> IF i <= Len(v) THEN v[i] ELSE 0]

EFEndianBSwapN(v, k) == [i \in 1..k * B |-> v[(k - 1 - (i - 1) \div B) * B + ((i - 1) % B) + 1]]

Swapped(v) == EFEndianBSwapN(Pad(v, NumBytes(Len(v)) * B), NumBytes(Len(v)))

\* What a value of more than one byte is turned into, by writes and by reads.
ToEndian(v, e) == IF Len(v) > B /\ e = "big" THEN Swapped(v) ELSE v

\* The window of bytes at base, and the window with a value put into it.
LoadWindow(base) == [i \in 1..Window * B |-> Bit(base * B + i - 1)]
OrInto(win, v, shift) ==
    [i \in DOMAIN win |-> IF i - shift \in DOMAIN v THEN Larger(win[i], v[i - shift]) ELSE win[i]]

\* EFBitWalkerRead's answer for a field that starts at bit s.
ValueAt(s, n, e) == ToEndian([i \in 1..n |-> Bit(s + i - 1)], e)

(***************************************************************************)
(* The file                                                                *)
(***************************************************************************)

\* read of n bytes and write of the bits b, at byte base.
BytesRead(base, n) == IF base >= Bytes THEN 0 ELSE Smaller(n, Bytes - base)
Overwrite(base, b) ==
    file' = [i \in 1..Larger(Len(file), IF b = <<>> THEN 0 ELSE base * B + Len(b)) |->
                IF i - base * B \in DOMAIN b THEN b[i - base * B] ELSE Bit(i - 1)]

\* Where lseek goes: a negative position is refused, and the refusal ignored.
SeekTo(p) == IF p >= 0 THEN p ELSE offset

Position(w) == bytePos[w] * B + bitIndex[w]

Written(s, v, w) == {[start |-> s, value |-> v, endian |-> endian[w]]}

\* Bits from..to - 1 have been written over: their fields are no more.
Untouched(from, to) == {f \in fields : f.start + Len(f.value) <= from \/ f.start >= to}

(***************************************************************************)
(* EFBitWalkerWrite: seek, read the window, put the value in, seek again,  *)
(* write the window.  The value joins the bits that are there; the field   *)
(* holds the value if it had no other bit set.                             *)
(***************************************************************************)

Advance(w, n) ==
    /\ bytePos' = [bytePos EXCEPT ![w] = @ + (bitIndex[w] + n) \div B]
    /\ bitIndex' = [bitIndex EXCEPT ![w] = (@ + n) % B]

NewWindow(w, v) == OrInto(LoadWindow(SeekTo(bytePos[w])), ToEndian(v, endian[w]), bitIndex[w])

\* The second seek is missing.
StoreAfterRead(w) == SeekTo(bytePos[w]) + BytesRead(SeekTo(bytePos[w]), Window)

\* The write falls where the read has left the offset if the second seek is
\* refused too.
StoreAt(w) == IF bytePos[w] >= 0 THEN bytePos[w] ELSE offset + BytesRead(offset, Window)

Fits(w, v) == \A i \in DOMAIN v : Bit(Position(w) + i - 1) <= ToEndian(v, endian[w])[i]

Remember(w, v) ==
    fields' = IF bytePos[w] < 0 THEN Untouched(StoreAt(w) * B, (StoreAt(w) + Window) * B)
              ELSE Untouched(Position(w), Position(w) + Len(v))
                   \cup IF Fits(w, v) THEN Written(Position(w), v, w) ELSE {}

EFBitWalkerWrite(w, v) ==
    /\ StoreAt(w) + Window <= MaxBytes
    /\ Overwrite(StoreAt(w), NewWindow(w, v))
    /\ offset' = StoreAt(w) + Window
    /\ Remember(w, v)
    /\ Advance(w, Len(v))

\* read fails.
WriteNotRead(w) ==
    /\ offset' = SeekTo(bytePos[w])
    /\ UNCHANGED <<file, bytePos, bitIndex, fields>>

\* write fails (k = 0) or stores k bytes only: the cursor stays.
WriteShort(w, v, k) ==
    /\ StoreAt(w) + k <= MaxBytes
    /\ Overwrite(StoreAt(w), SubSeq(NewWindow(w, v), 1, k * B))
    /\ offset' = StoreAt(w) + k
    /\ fields' = IF bytePos[w] < 0 THEN Untouched(StoreAt(w) * B, (StoreAt(w) + k) * B)
                 ELSE Untouched(Position(w), Position(w) + Len(v))
    /\ UNCHANGED <<bytePos, bitIndex>>

\* A read moves the offset and not the cursor.
EFBitWalkerRead(w) ==
    /\ offset' = SeekTo(bytePos[w]) + BytesRead(SeekTo(bytePos[w]), Window)
    /\ UNCHANGED <<file, bytePos, bitIndex, fields>>

(***************************************************************************)
(* Buffers: align, seek, read or write, and move the cursor by the count,  *)
(* which is -1 when the call fails.                                        *)
(***************************************************************************)

Aligned(w) == bytePos[w] + (IF bitIndex[w] # 0 THEN 1 ELSE 0)

AlignAndMove(w, n) ==
    /\ bytePos' = [bytePos EXCEPT ![w] = Aligned(w) + n]
    /\ bitIndex' = [bitIndex EXCEPT ![w] = 0]

EFBitWalkerWriteBuffer(w, b) ==
    LET base == SeekTo(Aligned(w)) IN
    /\ base + 1 <= MaxBytes
    /\ Overwrite(base, b)
    /\ offset' = base + 1
    /\ fields' = Untouched(base * B, (base + 1) * B) \cup Written(base * B, b, w)
    /\ AlignAndMove(w, 1)

EFBitWalkerReadBuffer(w, n) ==
    LET base == SeekTo(Aligned(w)) IN
    /\ offset' = base + BytesRead(base, n)
    /\ AlignAndMove(w, BytesRead(base, n))
    /\ UNCHANGED <<file, fields>>

BufferFails(w) ==
    /\ offset' = SeekTo(Aligned(w))
    /\ AlignAndMove(w, -1)
    /\ UNCHANGED <<file, fields>>

(***************************************************************************)
(* The cursor.  EFBitWalkerReset is a seek to the start; SetPosition is    *)
(* a seek.  Callers give bit indices of 0..B - 1.                          *)
(***************************************************************************)

EFBitWalkerSeek(w, p, i) ==
    /\ p \in 0..MaxBytes /\ i \in 0..B - 1
    /\ bytePos' = [bytePos EXCEPT ![w] = p]
    /\ bitIndex' = [bitIndex EXCEPT ![w] = i]
    /\ UNCHANGED <<file, offset, fields>>

EFBitWalkerSkip(w, n) ==
    /\ Position(w) + n \in -B..MaxBytes * B
    /\ Advance(w, n)
    /\ UNCHANGED <<file, offset, fields>>

EFBitWalkerAlignByte(w) ==
    /\ bitIndex[w] # 0
    /\ AlignAndMove(w, 0)
    /\ UNCHANGED <<file, offset, fields>>

\* Somebody seeks, reads or writes nothing on the original handle.
HandleSeek(p) ==
    /\ offset' = p
    /\ UNCHANGED <<file, bytePos, bitIndex, fields>>

-----------------------------------------------------------------------------
WriteCall(w) == \E v \in Values[endian[w]] : \/ EFBitWalkerWrite(w, v)
                                  \/ \E k \in 0..Window - 1 : WriteShort(w, v, k)

BufferCall(w) == \/ \E b \in Buffers : EFBitWalkerWriteBuffer(w, b)
                 \/ \E n \in 1..2 : EFBitWalkerReadBuffer(w, n)
                 \/ BufferFails(w)

CursorCall(w) == \/ \E p \in 0..MaxBytes, i \in 0..B - 1 : EFBitWalkerSeek(w, p, i)
                 \/ \E n \in Skips : EFBitWalkerSkip(w, n)
                 \/ EFBitWalkerAlignByte(w)

\* The cursor stays within the bounds of the model.
Bounded == \A w \in Walker : bytePos'[w] \in -1..MaxBytes

WalkerNext == /\ \/ \E w \in Walker : \/ WriteCall(w) \/ WriteNotRead(w) \/ EFBitWalkerRead(w)
                                      \/ BufferCall(w) \/ CursorCall(w)
                 \/ \E p \in 0..MaxBytes : HandleSeek(p)
              /\ Bounded
              /\ UNCHANGED endian

WalkerSpec == InitWalker /\ [][WalkerNext]_walkerVars

-----------------------------------------------------------------------------
(* What EFBitWalkerWrite was given is what EFBitWalkerRead returns at the    *)
(* same place, and bytes that were in the file are still there, whatever     *)
(* other calls, failed writes and their repetition have done elsewhere in    *)
(* between, as long as nobody wrote to these bits: a write rewrites a whole  *)
(* window of nine bytes and must change none but those of its field.         *)
ReadBack == \A f \in fields :
    LET read == ValueAt(f.start, Len(f.value), f.endian) IN read = Pad(f.value, Len(read))
=============================================================================
