--------------------------- MODULE ProjectManager ---------------------------
(***************************************************************************)
(* The squadt project manager (src/src/squadt/project_manager.cpp): the   *)
(* list of processors of a project, each producing an output file and     *)
(* possibly taking the outputs of other processors (its generators) as    *)
(* inputs, and the reverse dependency map from a generator to the         *)
(* processors that use it.                                                 *)
(*                                                                         *)
(* A processor is a model value.  Its generators and its output location  *)
(* are fixed when it is created (Gen, Loc); processor objects are never   *)
(* re-created, so a removed one cannot come back.  The status of outputs, *)
(* kept by processor.cpp, is not part of the model.                        *)
(***************************************************************************)
EXTENDS Integers, Sequences, FiniteSets, Functions

CONSTANTS
  Procs,        \* every processor object the run can create
  Gen,          \* Procs -> SUBSET Procs: the generators of its inputs
  Loc,          \* Procs -> Files: the leaf name of its output
  Files,
  ProjectFile,  \* the processors listed in the project description file
  StoreFiles,   \* the files in the store directory
  DirProc,      \* StoreFiles -> Procs: the processor import_directory makes
  ImportProcs,  \* processors import_file can make (no inputs)
  AddProcs      \* processors the GUI can configure and add

ASSUME /\ Gen \in [Procs -> SUBSET Procs] /\ Loc \in [Procs -> Files]
       /\ DirProc \in [StoreFiles -> Procs]

VARIABLES
  processors,       \* processor_list, in order
  reverse_depends,  \* dependency_map: pairs <<generator, dependent>>
  created           \* processor objects made so far

vars == <<processors, reverse_depends, created>>

Listed == Range(processors)

(* The orders a set of processors can be listed in.                       *)
Orders(S) == {s \in [1 .. Cardinality(S) -> S] : IsInjective(s)}

(* Generator-closed prefixes: what write() leaves of a list whose          *)
(* generators come first, cut short.                                       *)
ClosedPrefixes(S) ==
  {SubSeq(s, 1, n) : s \in {t \in Orders(S) :
                        \A a, b \in DOMAIN t : t[a] \in Gen[t[b]] => a < b},
                     n \in 0 .. Cardinality(S) - 1}

-----------------------------------------------------------------------------
(* Lines 79-88 and 101-107: one pair per input of a processor whose       *)
(* generator exists.                                                       *)
ReverseDependsOf(S) == {<<g, p>> \in Procs \X S : g \in Gen[p]}

(* sort_processors, lines 278-320: the sources get 1, 2, ... in list      *)
(* order; a processor with inputs gets 1 + max(max weight of its          *)
(* generators, number of sources) once all its generators have a weight.  *)
NumberOfSources(s) == Cardinality({n \in DOMAIN s : Gen[s[n]] = {}})

SourceIndex(s, p) ==
  Cardinality({n \in DOMAIN s : Gen[s[n]] = {} /\ \E m \in DOMAIN s : s[m] = p /\ n <= m})

RECURSIVE Weight_Min(_, _)
(* Mutant: the minimum generator weight is taken instead of the maximum.  *)
Weight_Min(s, p) ==
  IF Gen[p] = {} THEN SourceIndex(s, p)
  ELSE LET ws == {Weight_Min(s, g) : g \in Gen[p]}
           least == CHOOSE w \in ws : \A v \in ws : w <= v
       IN 1 + IF least > NumberOfSources(s) THEN least ELSE NumberOfSources(s)

RECURSIVE Weight(_, _)
Weight(s, p) ==
  IF Gen[p] = {} THEN SourceIndex(s, p)
  ELSE LET ws == {Weight(s, g) : g \in Gen[p]} \cup {NumberOfSources(s)}
       IN 1 + (CHOOSE w \in ws : \A v \in ws : v <= w)

(* Lines 322-327: std::stable_sort by weight, ascending.                   *)
RECURSIVE ByWeight(_, _, _)
ByWeight(s, w, ws) ==
  IF ws = {} THEN <<>>
  ELSE LET m == CHOOSE x \in ws : \A y \in ws : x <= y
       IN SelectSeq(s, LAMBDA p : w[p] = m) \o ByWeight(s, w, ws \ {m})

SortProcessors(s) ==
  LET w == [p \in Range(s) |-> Weight(s, p)]
  IN ByWeight(s, w, Range(w))

(* import_directory, lines 116-135: one new processor per file of the     *)
(* store other than the project file, in directory order.                  *)
ImportDirectory == {[n \in DOMAIN o |-> DirProc[o[n]]] : o \in Orders(StoreFiles)}

(* read, lines 222-253: the processors of the file, then sorted.  A       *)
(* processor entry that fails to read throws out of the loop at line 244, *)
(* leaving the ones read before it and skipping the sort.                  *)
ReadComplete == {SortProcessors(s) : s \in Orders(ProjectFile)}
ReadFails    == ClosedPrefixes(ProjectFile)

(* The constructor, lines 34-89: a new store gets an empty project; a     *)
(* store without a project file, or with one that is to be rebuilt (b),   *)
(* is imported; otherwise the file is read, and if reading throws the     *)
(* directory is imported after what was read.  Then the reverse           *)
(* dependencies are computed.                                              *)
Init ==
  /\ processors \in {<<>>} \cup ImportDirectory \cup ReadComplete
                      \cup {r \o d : r \in ReadFails, d \in ImportDirectory}
  /\ reverse_depends = ReverseDependsOf(Listed)
  /\ created = Listed

(* get_conflict_list, lines 356-380: the listed processors other than p   *)
(* with an output at the location of p's output.                           *)
get_conflict_list(p) == {q \in Listed \ {p} : Loc[q] = Loc[p]}

-----------------------------------------------------------------------------
(* The walk of lines 461-478 (and of update_status, 336-350): pop a       *)
(* processor, push every dependent recorded for it.                        *)
SetToSeqOf(S) == CHOOSE s \in Orders(S) : TRUE

RECURSIVE Walk(_, _)
Walk(stack, seen) ==
  IF stack = <<>> THEN seen
  ELSE LET top  == Head(stack)
           next == {q \in Procs : <<top, q>> \in reverse_depends}
       IN Walk(Tail(stack) \o SetToSeqOf(next), seen \cup next)

(* Mutant: add() appends but registers no reverse dependency.             *)
Add_NoRegister(p) ==
  /\ p \in AddProcs \ (created \ Listed)
  /\ Gen[p] \subseteq Listed
  /\ IF p \in Listed THEN UNCHANGED vars
     ELSE /\ processors' = Append(processors, p)
          /\ created' = created \cup {p}
          /\ UNCHANGED reverse_depends

(* Mutant: add() appends without looking for p in the list.               *)
Add_NoDupCheck(p) ==
  /\ p \in AddProcs \ (created \ Listed)
  /\ Gen[p] \subseteq Listed
  /\ processors' = Append(processors, p)
  /\ reverse_depends' = reverse_depends \cup {<<g, p>> : g \in Gen[p]}
  /\ created' = created \cup {p}

(* add, lines 94-111: a processor configured on outputs of listed ones;   *)
(* nothing happens when it is already listed.                              *)
Add(p) ==
  /\ p \in AddProcs \ (created \ Listed)
  /\ Gen[p] \subseteq Listed
  /\ IF p \in Listed THEN UNCHANGED vars
     ELSE /\ processors' = Append(processors, p)
          /\ reverse_depends' = reverse_depends \cup {<<g, p>> : g \in Gen[p]}
          /\ created' = created \cup {p}

(* import_file, lines 417-448: a new processor with one original output,  *)
(* appended whether or not a processor already owns that file.            *)
ImportFile(p) ==
  /\ p \in ImportProcs \ created
  /\ processors' = Append(processors, p)
  /\ created' = created \cup {p}
  /\ UNCHANGED reverse_depends

(* Mutant: remove() drops p alone, without walking its dependents.        *)
Remove_NoClosure(p) ==
  /\ p \in Listed
  /\ LET obsolete == {p}
     IN /\ reverse_depends' = {d \in reverse_depends : d[2] \notin obsolete}
        /\ processors' = SelectSeq(processors, LAMBDA q : q \notin obsolete)
  /\ UNCHANGED created

(* remove, lines 457-525: p and everything reachable from it in           *)
(* reverse_depends become obsolete; their own entries are erased, then    *)
(* they leave the list.                                                    *)
Remove(p) ==
  /\ p \in Listed
  /\ LET obsolete == {p} \cup Walk(<<p>>, {})
     IN /\ reverse_depends' = {d \in reverse_depends : d[2] \notin obsolete}
        /\ processors' = SelectSeq(processors, LAMBDA q : q \notin obsolete)
  /\ UNCHANGED created

Next ==
  \/ \E p \in AddProcs : Add(p)
  \/ \E p \in ImportProcs : ImportFile(p)
  \/ \E p \in Procs : Remove(p)

Spec == Init /\ [][Next]_vars

-----------------------------------------------------------------------------
TypeOK ==
  /\ processors \in Seq(Procs) /\ IsInjective(processors)
  /\ reverse_depends \subseteq Procs \X Procs
  /\ created \subseteq Procs /\ Listed \subseteq created

(* reverse_depends records exactly the inputs of the listed processors:   *)
(* add registers them, remove erases those of everything it removes, and  *)
(* the constructor computes them.  update_status and remove walk it, so a *)
(* missing pair hides a dependent and an extra one names a dead object.   *)
ReverseDependsExact ==
  reverse_depends = ReverseDependsOf(Listed)

(* After any remove, no listed processor takes its input from a processor *)
(* that is gone: the walk at lines 461-478 finds every transitive         *)
(* dependent, however long the chain.                                      *)
NoOrphans ==
  \A p \in Listed : Gen[p] \subseteq Listed

(* Every generator is listed before the processors that use it: the sort  *)
(* of read establishes it, and add, import_file and remove keep it, so    *)
(* write() stores the project in dependency order.                         *)
GeneratorsPrecede ==
  \A a, b \in DOMAIN processors : processors[a] \in Gen[processors[b]] => a < b

(* No listed processor has a conflict: get_conflict_list, which the GUI   *)
(* asks before it lets a processor produce its outputs, is empty for every *)
(* one, so no file of the store is owned twice.  The constructor imports   *)
(* the directory only when the project file is missing or "probably        *)
(* broken", as a replacement for what it would have read (lines 44-69).   *)
NoOutputConflict ==
  \A p \in Listed : get_conflict_list(p) = {}

=============================================================================
