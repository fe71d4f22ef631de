------------------------------ MODULE StringLog ------------------------------
(* What the string cache promises: a log of distinct strings that only     *)
(* grows, and readers each of whom holds a prefix of it. A reader may fall *)
(* back to nothing, when his session ends; when the log is lost, so is     *)
(* everything that was read of it.                                         *)
EXTENDS Integers, SequencesExt

CONSTANTS
  Readers,   \* those who follow the log
  Words      \* strings it may hold

VARIABLES
  log,       \* the strings, at the position that is their id
  copy       \* what each reader has of it

logVars == <<log, copy>>

Distinct(s) == \A i, j \in DOMAIN s : s[i] = s[j] => i = j

LogInit == log = <<>> /\ copy = [r \in Readers |-> <<>>]

(* The log takes new strings, all of them at its end. *)
Grow ==
  /\ log' \in Seq(Words) /\ IsPrefix(log, log') /\ Distinct(log')
  /\ UNCHANGED copy

(* A reader learns strings that follow those he has, or forgets everything. *)
Follow(r) ==
  /\ UNCHANGED log
  /\ \E n \in 0..Len(log) :
       /\ n = 0 \/ n >= Len(copy[r])
       /\ copy' = [copy EXCEPT ![r] = SubSeq(log, 1, n)]

Lose == log' = <<>> /\ copy' = [r \in Readers |-> <<>>]

LogNext == Grow \/ (\E r \in Readers : Follow(r)) \/ Lose

LogSpec == LogInit /\ [][LogNext]_logVars
=============================================================================
