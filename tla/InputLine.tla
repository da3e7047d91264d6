------------------------------ MODULE InputLine ------------------------------
(***************************************************************************)
(* What the console promises to those who type and to those who read       *)
(* (input-output/cons_read.c:40-50, keyboard.h:10-35): the characters typed*)
(* are kept in order, the last of them can be taken back, and each read    *)
(* takes the characters of one line from the front; what it does not take  *)
(* stays for the next read.                                                *)
(***************************************************************************)
EXTENDS SequencesExt, Integers

CONSTANTS
  Characters,
  Room,           (* how many characters can be kept                       *)
  Lengths         (* how many characters a read may ask for                *)

VARIABLES
  line,           (* the characters typed and not read, the oldest first   *)
  given           (* what the read that has just returned was given        *)

lineVars == <<line, given>>

LineInit == line = <<>> /\ given = <<>>

(* The first n characters, or all there are, and where the first line ends.*)
FirstOf(n) == SubSeq(line, 1, IF n < Len(line) THEN n ELSE Len(line))
AllBut(n)  == SubSeq(line, n + 1, Len(line))
LineEnd    == SelectInSeq(line, LAMBDA c : c = "LF")

(* Equal characters are typed, by one key; those that do not fit are       *)
(* ignored.                                                                *)
Type ==
  /\ \E c \in Characters, n \in 1 .. Room - Len(line) :
        line' = line \o [i \in 1 .. n |-> c]
  /\ given' = <<>>

TakeBack ==
  /\ \E n \in 0 .. Len(line) : line' = FirstOf(n)
  /\ given' = <<>>

(* A read stops at the end of the line, which it takes out of the line     *)
(* and which a program that reads the terminal as a file may be given.     *)
ReadPart(n) ==
  /\ Len(line) >= n
  /\ LineEnd \notin 1 .. n
  /\ given' = FirstOf(n)
  /\ line' = AllBut(n)

ReadLine(n) ==
  /\ LineEnd \in 1 .. n
  /\ given' \in {FirstOf(LineEnd - 1), FirstOf(LineEnd)}
  /\ line' = AllBut(LineEnd)

(* A line that fills the room ends there.                                  *)
ReadFull(n) ==
  /\ Len(line) = Room /\ Room < n
  /\ LineEnd = 0
  /\ given' = line /\ line' = <<>>

(* What was given is the business of the reader from here on.              *)
Forget == given' = <<>> /\ UNCHANGED line

LineNext ==
  \/ Type \/ TakeBack \/ Forget
  \/ \E n \in Lengths : ReadPart(n) \/ ReadLine(n) \/ ReadFull(n)

LineSpec == LineInit /\ [][LineNext]_lineVars
=============================================================================
