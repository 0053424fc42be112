----------------------------- MODULE MCPhoenix -----------------------------
(* Model checking of the Phoenix runtime and of two programs that use it: calls *)
(* of map_reduce (MapReduce), WordCount, or KMeans.  One of them is run.        *)
EXTENDS MCMapReduce

VARIABLES program,
          position, pieces, working, collected, outcome, place,   (* of both programs *)
          file, text,                                             (* of WordCount     *)
          points, means, clusters, modified, first_run            (* of KMeans        *)

bothVars      == <<position, pieces, working, collected, outcome, place>>
wordCountVars == <<file, text>>
kMeansVars    == <<points, means, clusters, modified, first_run>>
allVars       == <<vars, program, bothVars, wordCountVars, kMeansVars>>

(* Texts of five characters in pieces of one character or as many as it takes:
   words begin, end and are empty on both sides of every cut.                 *)
Characters == {"a", "A", "'", "-", " "}
WC == INSTANCE WordCount
        WITH NumThreads <- 2, ReqBytes <- 1, Texts <- [0 .. 4 -> Characters],
             data <- text, fpos <- position, tasks <- pieces, running <- working,
             emitted <- collected, counts <- outcome, pc <- place

(* Four points in the plane in pieces of three and one, three clusters of which
   some may stay empty or be empty for a time.                                *)
KMStarts == {[points |-> << <<p, 0>>, <<q, 1>>, <<4, 2>>, <<7, 0>> >>,
              means  |-> << <<m, 0>>, <<n, 1>>, <<o, 2>> >>] :
               p \in 0 .. 4, q \in 0 .. 4, m \in {0, 3, 9}, n \in {0, 3, 5}, o \in {2, 5, 9}}
KM == INSTANCE KMeans
        WITH NumThreads <- 2, ReqUnits <- 3, Starts <- KMStarts,
             next_point <- position, tasks <- pieces, running <- working,
             emitted <- collected, result <- outcome, pc <- place

Idle == <<>>
BothIdle      == /\ position = Idle /\ pieces = Idle /\ working = Idle
                 /\ collected = Idle /\ outcome = Idle /\ place = "idle"
WordCountIdle == file = Idle /\ text = Idle
KMeansIdle    == /\ points = Idle /\ means = Idle /\ clusters = Idle
                 /\ modified = Idle /\ first_run = Idle

InitPhoenix ==
  /\ Init
  /\ \/ program = "calls" /\ BothIdle /\ WordCountIdle /\ KMeansIdle
     \/ program = "word_count" /\ WC!Init /\ KMeansIdle
     \/ program = "kmeans" /\ KM!Init /\ WordCountIdle

CallsStep     == /\ program = "calls" /\ Next
                 /\ UNCHANGED <<program, bothVars, wordCountVars, kMeansVars>>
WordCountStep == program = "word_count" /\ WC!Next /\ UNCHANGED <<program, vars, kMeansVars>>
KMeansStep    == program = "kmeans" /\ KM!Next /\ UNCHANGED <<program, vars, wordCountVars>>

NextPhoenix == CallsStep \/ WordCountStep \/ KMeansStep

(* Calls as in MapReduce; of the threads of a program some that can go on does. *)
SpecPhoenix == /\ InitPhoenix /\ [][NextPhoenix]_allVars
               /\ WF_vars(Main) /\ WF_vars(\E w \in running : Work(w))
               /\ WF_allVars(WordCountStep \/ KMeansStep)

(* The result of a call is sorted, word_count counts every word of the file, and
   kmeans ends with clusters that fit their means (ResultIsSorted of MapReduce,
   WordsAreRight of WordCount, ClustersAreRight of KMeans).                     *)
ResultsAreRight ==
  /\ program = "calls" => ResultIsSorted
  /\ program = "word_count" => WC!WordsAreRight
  /\ program = "kmeans" => KM!ClustersAreRight

(* main of kmeans frees only what malloc returned.  Not checked by Phoenix.cfg:
   a cluster that has had no points breaks it (kmeans.c:441-447, 474-478).      *)
KMeansFreesItsOwn == program = "kmeans" => KM!FreesItsOwn

(* A call returns or fails at once; the programs end, kmeans after finitely many
   rounds although means are rounded and empty clusters keep theirs
   (map_reduce.c:243-334, kmeans.c:426-455).                                    *)
ProgramEnds ==
  /\ CallEnds
  /\ (program # "calls") ~> (place \in {"done", "undefined"})

=============================================================================
