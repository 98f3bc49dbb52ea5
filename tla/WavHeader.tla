------------------------------ MODULE WavHeader ------------------------------
(***************************************************************************)
(* How the chunked engine learns where the samples of a WAV file begin:    *)
(* _fetchHeader and _parseWavHeader of src/static/js/chunkedAudioEngine.js.*)
(*                                                                         *)
(* A file is its chunk table and its length in bytes.  A prefix of it is   *)
(* asked for and parsed; a prefix that ends inside the table is asked for  *)
(* again, wider.                                                           *)
(***************************************************************************)
EXTENDS Integers, Sequences, FiniteSets

CONSTANTS
  Tables,  \* chunk tables: sequences of [id, size]; the data chunk is the last
  Spare    \* how much a file is longer (or shorter) than its table says

VARIABLES wh

ProbeBytes == 1024
MaxBytes == 1024 * 1024
MaxAttempts == 5
LeastOf(S) == CHOOSE x \in S : \A y \in S : x <= y
MostOf(S) == CHOOSE x \in S : \A y \in S : x >= y

(* Where chunk i begins: chunks are aligned to words.                       *)
offset(t, i) ==
  LET at[k \in 1..i] == IF k = 1 THEN 12 ELSE at[k - 1] + 8 + t[k - 1].size + (t[k - 1].size % 2)
  IN at[i]
length(f) == offset(f.table, Len(f.table)) + 8 + f.table[Len(f.table)].real + f.spare

Extensible(c) == c.id = "fmt" /\ c.size >= 40
(* What must have been read of a chunk's own head, one look after another.  *)
looks(c) == IF c.id # "fmt" THEN {8} ELSE IF Extensible(c) THEN {8, 24, 34} ELSE {8, 24}

(* What a prefix of n bytes says: the header, more bytes, or that it is no  *)
(* file to be played this way.                                              *)
walkTable(f, n, size) ==
  LET t == f.table
      short(i) == {b \in looks(t[i]) : n < offset(t, i) + b}
      beyond(i) == t[i].id # "data" /\ size > 0 /\ offset(t, i + 1) > size
      i == LeastOf({k \in 1..Len(t) : short(k) # {} \/ beyond(k) \/ t[k].id = "data"})
  IN CASE n < 12 -> [is |-> "short", need |-> 12]
       [] n >= 12 /\ short(i) # {} -> [is |-> "short", need |-> offset(t, i) + LeastOf(short(i))]
       [] n >= 12 /\ short(i) = {} /\ beyond(i) -> [is |-> "invalid"]
       [] OTHER -> [is |-> "header", from |-> offset(t, i) + 8, bytes |-> t[i].size]

parseWavHeader(f, n, size) ==
  LET p == walkTable(f, n, size)
      available == IF size > p.from THEN size - p.from ELSE 0
  IN IF p.is # "header" THEN p
     ELSE IF ~\E k \in 1..Len(f.table) : f.table[k].id = "fmt" /\ f.table[k].playable
     THEN [is |-> "invalid"]
     ELSE IF available > 0 /\ (p.bytes = 0 \/ p.bytes > available) THEN [p EXCEPT !.bytes = available]
     ELSE p

(* The server sends a range and the length, a range, or the whole file.     *)
WavTypeOK ==
  /\ wh.got \in 0..length(wh.file) /\ wh.server \in {"range", "unsized", "whole"}
  /\ wh.attempt \in 0..MaxAttempts /\ wh.want \in 1..MaxBytes /\ wh.size \in Nat
  /\ wh.result.is \in {"asking", "header", "none"}

WavInit == \E t \in Tables, spare \in Spare, server \in {"range", "unsized", "whole"} :
  wh = [file |-> [table |-> t, spare |-> spare], server |-> server, attempt |-> 0, want |-> ProbeBytes,
        size |-> 0, got |-> 0, result |-> [is |-> "asking"]]

None == [is |-> "none"]
ended(w, r) == [w EXCEPT !.result = r]

widen(n, need, size) ==
  LeastOf({MostOf({need, n * 4}), MaxBytes, IF size > 0 THEN size ELSE MaxBytes})

fetchHeader == wh.result.is = "asking" /\ wh.attempt < MaxAttempts /\
  LET file == length(wh.file)
      n == IF wh.server = "whole" THEN file ELSE LeastOf({wh.want, file})
      size == IF wh.server = "range" THEN file ELSE 0
      p == parseWavHeader(wh.file, n, size)
      next == widen(n, p.need, size)
      w == [wh EXCEPT !.attempt = @ + 1, !.size = size, !.got = n]
  IN wh' = CASE p.is = "header"  -> ended(w, p)
             [] p.is = "invalid" -> ended(w, None)
             [] p.is = "short" /\ (wh.server = "whole" \/ (size > 0 /\ n >= size) \/ next <= n) -> ended(w, None)
             [] OTHER -> [w EXCEPT !.want = next]

outOfAttempts == wh.result.is = "asking" /\ wh.attempt = MaxAttempts /\ wh' = ended(wh, None)
connectionLost == wh.result.is = "asking" /\ wh' = ended(wh, [is |-> "none", lost |-> TRUE])

WavNext == fetchHeader \/ outOfAttempts \/ connectionLost
WavSpec == WavInit /\ [][WavNext]_wh

(* ------------------------------ properties ------------------------------ *)
(* A file that can be played is played, however much metadata its writer    *)
(* put before the samples, up to the 256 KiB that five requests reach even  *)
(* if each finds only the next chunk of the table.                          *)
Playable(f) == \E k \in 1..Len(f.table) : f.table[k].id = "fmt" /\ f.table[k].playable
DataAt(f) == offset(f.table, Len(f.table)) + 8
PlayableIsFound ==
  wh.result = None =>
    ~Playable(wh.file) \/ DataAt(wh.file) > length(wh.file) \/ DataAt(wh.file) > 256 * 1024

(* The samples the engine will ask for begin where they are and are all     *)
(* inside a file whose length is known.                                     *)
SamplesAreInTheFile ==
  wh.result.is = "header" =>
    /\ wh.result.from = DataAt(wh.file)
    /\ wh.size > wh.result.from => wh.result.from + wh.result.bytes <= wh.size
=============================================================================
