----------------------------- MODULE WordCount -----------------------------
(* word_count.c of Phoenix: how often each word occurs in a file.  The pieces  *)
(* of the file that map tasks work on at the same time are parts of one text   *)
(* in memory, and the tasks change it: they make letters capital and put a 0   *)
(* behind every word, because a key is a pointer to the word in the text.      *)
(* A step of a task is one byte.  The runtime between map and reduce is that   *)
(* of MapReduce: each emission reaches the reduce function of its word once.   *)
EXTENDS Integers, Sequences, FiniteSets

CONSTANTS NumThreads,   \* map threads
          ReqBytes,     \* req_units * unit_size, the nominal length of a piece
          Texts         \* the contents of the file, functions on 0 .. flen - 1

VARIABLES file,     \* the text as it is in the file
          data,     \* the text in memory, with the byte behind it
          fpos,     \* where the splitter is
          tasks,    \* pieces nobody has taken
          running,  \* tasks of map threads
          emitted,  \* what emit_intermediate was given, with the word it was then
          counts,   \* the result
          pc

vars == <<file, data, fpos, tasks, running, emitted, counts, pc>>

flen == Cardinality(DOMAIN file)
Nul  == ""

WhiteSpace == {" "}
Capitals   == {"A", "B"}
toupper(c) == IF c = "a" THEN "A" ELSE IF c = "b" THEN "B" ELSE c
InWord(c)  == c \in Capitals \/ c = "'"

Least(S) == CHOOSE n \in S : \A m \in S : n <= m

(* What strcmp finds at a pointer: the bytes before the next 0. *)
WordAt(text, start) ==
  LET stop == Least({n \in DOMAIN text : n >= start /\ text[n] = Nul})
  IN  [n \in 1 .. stop - start |-> text[start + n - 1]]

Init ==
  /\ file \in Texts
  /\ data = [n \in 0 .. flen |-> IF n = flen THEN Nul ELSE file[n]]
  /\ fpos = 0 /\ tasks = {} /\ running = {} /\ emitted = {} /\ counts = << >>
  /\ pc = "split"

(* Cuts words in two. *)
PieceEndAnywhere == IF fpos + ReqBytes > flen THEN flen ELSE fpos + ReqBytes

(* The end of the next piece: at the nominal length, or at the first white
   space after it, or at the end of the file.                                 *)
PieceEnd ==
  LET nominal == IF fpos + ReqBytes > flen THEN flen ELSE fpos + ReqBytes
  IN  Least({n \in nominal .. flen : n = flen \/ data[n] \in WhiteSpace})

wordcount_splitter ==
  /\ pc = "split" /\ fpos < flen
  /\ tasks' = tasks \cup {[first |-> fpos, length |-> PieceEnd - fpos]}
  /\ fpos' = PieceEnd
  /\ UNCHANGED <<file, data, running, emitted, counts, pc>>

AllSplit ==
  /\ pc = "split" /\ fpos >= flen
  /\ pc' = "map"
  /\ UNCHANGED <<file, data, fpos, tasks, running, emitted, counts>>

TakeTask ==
  /\ pc = "map" /\ Cardinality(running) < NumThreads
  /\ \E t \in tasks :
       /\ tasks' = tasks \ {t}
       /\ running' = running \cup {[first |-> t.first, length |-> t.length, i |-> 0,
                                    in_word |-> FALSE, curr_start |-> t.first]}
  /\ UNCHANGED <<file, data, fpos, emitted, counts, pc>>

(* The word of task t ends before place n of the text. *)
EndWord(t, n) ==
  /\ data' = [data EXCEPT ![n] = Nul]
  /\ emitted' = emitted \cup {[task |-> t.first, start |-> t.curr_start,
                               word |-> WordAt(data', t.curr_start)]}

Advance(t, in_word, curr_start) ==
  running' = (running \ {t}) \cup
    {[t EXCEPT !.i = @ + 1, !.in_word = in_word, !.curr_start = curr_start]}

NextByte(t) ==
  LET n == t.first + t.i
      curr_ltr == toupper(data[n])
  IN  /\ t.i < t.length
      /\ \/ /\ t.in_word /\ InWord(curr_ltr)
            /\ data' = [data EXCEPT ![n] = curr_ltr]
            /\ Advance(t, TRUE, t.curr_start)
            /\ UNCHANGED emitted
         \/ /\ t.in_word /\ ~InWord(curr_ltr)
            /\ EndWord(t, n)
            /\ Advance(t, FALSE, t.curr_start)
         \/ /\ ~t.in_word /\ curr_ltr \in Capitals
            /\ data' = [data EXCEPT ![n] = curr_ltr]
            /\ Advance(t, TRUE, n)
            /\ UNCHANGED emitted
         \/ /\ ~t.in_word /\ curr_ltr \notin Capitals
            /\ Advance(t, FALSE, t.curr_start)
            /\ UNCHANGED <<data, emitted>>
      /\ UNCHANGED <<file, fpos, tasks, counts, pc>>

(* "Add the last word", which the piece's end has cut off or the file's. *)
TaskReturns(t) ==
  /\ t.i = t.length
  /\ running' = running \ {t}
  /\ IF t.in_word THEN EndWord(t, t.first + t.length) ELSE UNCHANGED <<data, emitted>>
  /\ UNCHANGED <<file, fpos, tasks, counts, pc>>

wordcount_map == pc = "map" /\ \E t \in running : NextByte(t) \/ TaskReturns(t)

(* Combiner and reduce function add up the ones emitted for a word; words are
   compared in the text as it is now.                                         *)
wordcount_reduce ==
  /\ pc = "map" /\ tasks = {} /\ running = {}
  /\ counts' = [w \in {WordAt(data, e.start) : e \in emitted} |->
                  Cardinality({e \in emitted : WordAt(data, e.start) = w})]
  /\ pc' = "done"
  /\ UNCHANGED <<file, data, fpos, tasks, running, emitted>>

Done == pc = "done" /\ UNCHANGED vars

Next == wordcount_splitter \/ AllSplit \/ TakeTask \/ wordcount_map \/ wordcount_reduce \/ Done

(* A word of the file: from a letter, before which only apostrophes join it to
   what is no part of a word, to the end of letters and apostrophes.           *)
InWordAt(n) == n \in DOMAIN file /\ InWord(toupper(file[n]))
Words ==
  {w \in (DOMAIN file) \X (DOMAIN file) :
     /\ w[1] <= w[2] /\ \A n \in w[1] .. w[2] : InWordAt(n)
     /\ ~InWordAt(w[2] + 1)
     /\ toupper(file[w[1]]) \in Capitals
     /\ \A n \in 0 .. w[1] - 1 :
          (\A m \in n .. w[1] - 1 : InWordAt(m)) => file[n] = "'"}
Spelled(w) == [n \in 1 .. w[2] - w[1] + 1 |-> toupper(file[w[1] + n - 1])]

(* However the file is cut and the tasks interleave: a key stays the word it was
   when it was emitted, although the tasks of both sides write to the text, and
   the result has each word of the file with the number of its occurrences
   (word_count.c:256-291, 303-352).                                            *)
WordsAreRight ==
  /\ \A e \in emitted : WordAt(data, e.start) = e.word
  /\ pc = "done" =>
       /\ DOMAIN counts = {Spelled(w) : w \in Words}
       /\ \A word \in DOMAIN counts :
            counts[word] = Cardinality({w \in Words : Spelled(w) = word})

=============================================================================
