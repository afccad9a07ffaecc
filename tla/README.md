# TLA+ models of mCRL2 components

This directory holds TLA+ models of parts of the mCRL2 toolset in `src/`. TLC checks them. Each module is translated from the C++ source. `PROJECT.json` maps every definition to the lines it models.

## The system and its parts

The sources in `src/` come from many parts of mCRL2. They interact as follows:

* **Data rewriting.** The jitty rewriter (`src/libraries/data/source/detail/rewrite/jitty.cpp`) normalises data expressions. Almost every tool uses it: the solver in `mcrl2xi`, the enumerator, confluence checking and PBES tools. Its state is a strategy per function symbol, built once from the equations. Each `rewrite` call then recurses through `rewrite_aux`. The call keeps two kinds of local state:
  * a per-call `rewritten` / `rewritten_defined` cache of normalised arguments;
  * an assignment buffer filled by `match_jitty`.
* **The term store.** Terms are maximally shared: each one is interned in a hash set. `unordered_set_implementation.h` is that set. It uses separate chaining over a power-of-two number of buckets and rehashes when the load factor reaches its maximum. Every term the rewriter builds goes through `emplace`.
* **The mcrl2xi solver** (`solver.cpp`). It runs `solve` on a worker thread. `solve` parses, rewrites and enumerates solutions until it is done or `m_abort` is set. The GUI thread sets `m_abort` through `abort()`.
* **squadt** (`project_manager.cpp`, `processor.hpp`). It keeps a graph of processors with inputs and outputs and their status.
* **Others.** The remaining parts are algorithms and translations:
  * the stategraph local algorithm and confluence reduction;
  * `lpscleave`, which splits an LPS into two components that synchronise;
  * data reconstruction;
  * parsers;
  * file I/O and GUI code.

## What is modelled

| Module | Models | Code |
|---|---|---|
| `DataTerms` | terms as records (symbol, variable, application), nested heads, flattened arguments, higher-order re-application, the `Rewritten@@term` tag | `jitty.cpp` 72–78, 562–631 and helpers of the data library |
| `JittyMatch` | `match_jitty`, `subst_values` (no abstractions), `CheckRewriteRule`, the strategy of each symbol (`create_strategy`, `rebuild_strategy`) | `jitty.cpp` 151–203, 209–371; `strategy_rule.h` |
| `RewriteRef` | a reference innermost normaliser `RefNF` (RECURSIVE). It applies the first accepted rule in declaration order and needs no strategy. | — (the reference definition) |
| `RewriteSpec` | the abstract specification of `rewrite`: the result becomes `RefNF(input)` in one step | — |
| `Jitty` | `rewrite`, `rewrite_aux`, `rewrite_aux_function_symbol` and `rewrite_aux_const_function_symbol` as a state machine with an explicit call stack | `jitty.cpp` 133–148, 373–689 |
| `UnorderedSet` | `emplace` (with `emplace_impl` and `rehash_if_needed`), `erase(key)`, `erase(iterator)`, `count` (`find`), `clear`, `rehash`, `find_bucket_index`, `find_impl` | `unordered_set_implementation.h` 86–329 |
| `SetSpec` | the abstract set that the hash set implements | — |
| `Solver` | `Solver::solve` and `Solver::abort` of mcrl2xi as queued slots of the aterm thread, nested solves delivered by `processEvents`, the parse cache and `m_abort` | `solver.cpp` 17–135 |
| `ProjectManager` | the squadt project manager: the constructor, `add`, `import_file`, `remove` and `sort_processors`, over a processor list and the `reverse_depends` map | `project_manager.cpp` 34–135, 170–187, 222–328, 417–525 |
| `Confluence` | `confluence_checker::run`, `compute_confluent_summands`, `is_confluent`, `is_tautology`, and the square, triangular and trivial confluence conditions | `confluence.h` 98–124, 169–269, 279–364 |
| `ConfluenceSpec` | what confluence reduction promises: in one step, some confluent tau summands get the action ctau and nothing else changes; `SemConfluent` is the semantic confluence on the transitions | — (the abstract specification) |
| `FileSystem` | the project file system of mcrl2ide: start-up (`openFromArgument`), `setSpecificationModified`, `newProject`, `save`, `saveAs`, `newProperty`, `importProperties`, `editProperty`, `deleteProperty`, `openProjectFromFolder` with `findPropertyFilePath`, `readPropertyFromFile` and `loadSpecification`, in the same session or a new one, with files deleted outside the IDE, `saveProperty` of a parse copy, `createReinitialisedSpecification` for both of its callers with `upToDateOutputFileExists` over modification times, and the check for outside changes of the specification | `filesystem.cpp` 50–69, 163–168, 234–287, 422–571, 573–1047 |
| `Cleave` | `lpscleave`'s `run`, `dependency_cleave`, `cleave_summand` and `compute_dependencies` as operators on an input LPS, with the composition of the two outputs and the original's steps as references | `dependency_cleave.cpp` 22–193, 218–304; `lpscleave.cpp` 44–95 |
| `StategraphLocal` | `compute_belongs`, the initial marking, rule 1 (`update_marking_rule1`) with its per-graph worklist, rule 2 (`update_marking_rule2`) across graphs, the `stableint` / `stableext` loops of `compute_local_control_flow_graphs` / `run`, and the old algorithm `compute_control_flow_marking_old` as a RECURSIVE reference | `stategraph_local_algorithm.h` 25–37, 110–209, 255–599, 620–626 |

### Jitty

Recursion in `rewrite_aux` becomes a stack of frames, one per active call. The top frame takes steps. Frame kinds:

* `aux` is `rewrite_aux`;
* `fun` is `rewrite_aux_function_symbol`, with its `rewritten` cache (`rw`), strategy position (`pc`) and assignments (`asg`);
* `const` is the zero-arity rewriter;
* `hd` / `args` cover applications whose head is not a symbol.

A frame that calls `rewrite_aux` pushes a new frame and records in `wait` what the value is for. A `return rewrite_aux(x)` replaces the frame.

Each labelled piece of the C++ control flow is one action:

* an evaluation step of the strategy, which skips a position already rewritten (line 503), or the `break` when the position is out of range;
* a rule attempt, which covers the `break` on a rule arity above the term arity, a failed match with its reset of the assignments, an unconditional fire, and a conditional rule that calls the rewriter on its condition;
* the return of a rewritten condition, true or false;
* the final rewriting of the remaining arguments and the rebuilding of the higher-order term;
* the constant rewriter's steps.

The strategy is built by `CreateStrategy`, following `create_strategy`. That function lies outside `src/`, so it is modelled from the spec. Rules are taken by arity, in declaration order. Before the first rule that needs an argument, one evaluation step is added for each position that holds a non-variable or a repeated variable. The model therefore states no property of its own about that order: one would hold by the construction of `CreateStrategy`. A wrong order can still show up as a wrong normal form, which `RewritesToNormalForm` checks.

### UnorderedSet

`buckets` is a sequence of bucket lists, front first. `mask` is `m_buckets_mask` and `count` is `m_number_of_elements`. `inserted` is the bool returned by the last `emplace`, and `counted` the result of the last `count`. `EraseIterator` is `erase(it)` for an iterator at any node: it unlinks that node without comparing keys.

Rehash follows the source step by step:

1. It collects every node into one list by `push_front`.
2. It makes a new vector and sets the mask.
3. It re-inserts each node at the front of its new bucket.

`emplace` rehashes to twice the buckets in the same step as the insert, as `emplace_impl` does.

### Solver

The constructor moves the solver to the aterm thread, so `solve()` and `abort()` are queued events of that thread. `queue` holds them. `stack` holds the `solve()` calls in progress: line 113 calls `processEvents`, which can deliver a queued `solve()` inside a running one. The actions are:

* `Abort` (lines 132–135) sets `m_abort`. The model also marks every frame on the stack as aborted, since that is what the user asked to stop.
* `Solve` (lines 24–89) resets `m_abort`, reparses when the text changed or the last parse failed, and starts the enumeration. A parse error or a malformed expression ends the call in the same step.
* `EmitSolution` and `LoopExit` are the two outcomes of the loop test at line 90.
* `EventsDone` covers lines 113–116, after `processEvents` has emptied the queue.

`GuiSolve` and `GuiAbort` stand for the GUI, whose code is not under `src/`. The constant `GuiSolveWhileBusy` says whether the GUI may queue a `solve()` while one is pending.

### ProjectManager

A processor is a model value with fixed generators (`Gen`) and one output file (`Loc`). `processors` is the list, `reverse_depends` the set of pairs ⟨generator, user⟩, and `created` the objects made so far, so a removed processor never returns.

* `Init` is the constructor. The store can be new (empty project) or lack a project file (import the directory, in any directory order). The project file can read fully (sorted, from any order in the file) or fail part-way. A failed read keeps a prefix of the file and is followed by a directory import. The reverse dependencies are then computed.
* `Weight` and `ByWeight` are `sort_processors`. Sources are numbered in list order, a processor with inputs gets 1 + max(its generators' weights, the number of sources), and a stable sort follows.
* `Add` appends a processor configured on listed outputs and registers its inputs. It does nothing when the processor is already listed.
* `ImportFile` appends a new original processor.
* `Remove` walks `reverse_depends` from `p` with the stack of lines 461–478, erases the pairs of every obsolete processor, and drops them from the list.

`update`, `update_single`, `update_status` and `clean_store` change the status of outputs and the files on disk. That state lives in `processor.cpp`, outside `src/`, so they are not modelled.

### StategraphLocal

The input is fixed per run: local control-flow graphs as vertex sets (`VGraph`, `VName`, `Edges`), the PBES's parameters, `Used` / `Changed`, the data-flow function `Flow` and the free variables of arguments `ArgFV`. The significant variables `sig` are chosen in `Init` from `SigChoices` and never change. The state is the marking of each vertex together with the program counter of `run()`:

* `InitialMarking` sets each marking to `sig ∩ belongs` (lines 366–378);
* `IntRound` / `IntStep` / `IntNextGraph` / `IntEnd` are the inner loop: for each graph `j`, a worklist `todo` of vertices, rule 1 applied to one vertex at a time (chosen nondeterministically, since the order of a `std::set` of pointers is not fixed), and the successors re-added when the marking grew;
* `ExtRound` / `ExtStep` / `ExtNextGraph` / `ExtEnd` are the rule-2 pass over every graph and the loop test on `stableint` and `stableext`.

`compute_control_flow_marking_old`, which `run()` no longer calls, is an operator. It is the least fixpoint of its two rules above the initial marking: rule 1 on the unsubstituted free variables of an argument (`ArgFV`), and the cross-graph rule with `is_marked_in_other_graph`. Both rules only add to markings, so its loop ends there whatever the worklist order. `Flow` is a subset of `ArgFV`, because substituting the vertex's value can only remove variables.
### Confluence

An LPS has two Boolean parameters `x` and `y` (`States`), and each summand has at most one summation variable over `{0, 1}` (`E`). A summand is a record:

* `var` is the name of its variable;
* `act` is its action (`Tau` for the empty multi-action);
* `cond`, `arg` and `next` are its condition, action argument and next state, as functions of the state and the variable's value.

`Init` takes every subsequence of a pool of summands as the input, with each confluence type `C`, `T` or `Z`. The conditions of lines 169–269 are `SquareCondition`, `TriangularCondition` and `TrivialCondition`. Each is evaluated at one state and one value per free summation variable. `Valuations` gives the free variables as the code's formula has them: two summands whose variables have the same name share one variable. `IsValid` is the closed `forall` that `is_tautology` hands to the rewriter. The rewriter proves only valid formulas, and may fail to prove a valid one: `CheckPair` takes "proven" nondeterministically when the condition is valid, and "not proven" when it is not.

The loops are actions:

* `SkipSummand` and `StartCheck` are the outer loop of `compute_confluent_summands`;
* `CheckPair` and `AllPairsProven` are the loop of `is_confluent`, with its early return;
* `Relabel` is the renaming to ctau in `run()`.

`ConfluenceSpec` is the abstract specification. Its `Run` step replaces the LPS by one in which any subset of the semantically confluent tau summands has the action ctau, and sets `done`. `Confluence` instantiates it as `Abs`, with `done <- (pc = "done")` as the refinement mapping; `lps` maps to itself. Every step before `Relabel` leaves `lps` and `pc = "done"` alone, so it is a stutter of the abstract specification. `Relabel` is the one `Run` step. `ImplementsConfluenceSpec` checks `Abs!Spec`, weak fairness included.

`MarkedAreConfluent` compares the result with `SemConfluent`, a reference stated on the transitions of the LPS. Take a tau step `s → s1` of summand `t` and any step `s -l-> s2`. Then either both are tau steps to the same state, or `s1 -l-> s2`, or `s1 -l-> s3` and `s2 → s3` by `t`. Each of the three conditions implies this when the two summands' variables are distinct.

**Finding.** The conditions substitute the next state for the process parameters, but never rename the summation variables of the two summands apart. When both summands use the same name, the formula quantifies over one variable where the transitions have two. That is always the case when a summand is paired with itself. The `confluence_shared_names` run marks the following summands ctau, although they are not confluent:

* `sum e . (y == 0) -> tau . P(x = e, y = 1)` is marked trivially confluent. Its two tau steps can go to different states, and the check sees only `gi = gi`.
* `sum e . tau . P(y = e)` is marked square confluent next to `sum e . (y == e) -> c(e) . P()`. The tau step `τ(1)` disables `c(0)`.

### Cleave

`lpscleave` is one run of a function, so `Cleave` has no actions: `Init` is every input and `Spec` stops there. An input is an LPS of one or two summands from a pool, a non-empty `-p` option and any `-s` option, an index past the last summand included. A summand has one summation variable `e`, a condition, `tau` or one action with one argument, and an assignment for each parameter. Expressions are names, each with its free variables (`FV`, what `find_free_variables` returns) and its value (`Eval`). `LeftSpec` and `RightSpec` are the two outputs, as sets of component summands, because the order of summands does not change an LPS's behaviour. Each records the summand index, the variables it sums over, its condition, action, tag, sync set and assignments.

How the two outputs are put together is done by other tools, so `ComposedSteps` takes it from the code's comments. A tagged summand is performed by its owner alone. The summands `syncleft_i` and `syncright_i` synchronise on equal values of `S^i_X`, and the owner contributes the action. The tags, the sync actions and `intern` are hidden. `OriginalSteps` is the original LPS's steps from the same parameter values.

**Finding.** `compute_dependencies` puts a summand in `L_X` when its assignments to the other component's parameters are the identity and its action and own assignments read none of them (line 93). It does not look at the condition, whose free variables it adds to `S^i_X` only. The owner then performs such a summand alone and sums over the other component's parameters its condition reads (lines 118–125). So the condition is evaluated on a guessed value. For `(w == 0) -> tau . P()` with `-p x -s 0`, the composition takes a step from `w = 1` that the original cannot take. With the condition's other-component variables added to the test for `L_X`, the composition equals the original for all 1,385,280 inputs of the model.

### FileSystem

`FileSystem` models mcrl2ide's file handling with these variables:

* `properties` is the `properties` list in memory, a sequence of records `[name, kind, text]`;
* `entries` is the list of `<property>` elements of the project file;
* `files` is the properties folder of the open project, one file per name and extension (`equ` or `mcf`);
* `editor` and `specFile` are the specification in the editor and in the file at `specFilePath`;
* `specificationModified`, `projectOpen` and `specificationOnlyMode` are the flags of the same names;
* `stamp` and `specStamp` are the `lastModified` times of the property files and the specification file, and `now` is the time the next write gets;
* `lastKnownSpecificationModificationTime` is the time the IDE last recorded for the specification file (`updateSpecificationModificationTime`, after its own writes and loads);
* `reinit` is the session's temporary folder: for each property name, the reinitialised specification (of `SpecType::First`) with the two texts it was made from and its time, or `Absent`;
* `parseCopies` is the rest of that folder: the property files `saveProperty(property, true)` writes there for parsing, with text and time. Their path names only the property (lines 163–168).

The temporary folder is a `QTemporaryDir` member (lines 62–65), so it lasts as long as the session.

`updateProjectFile` rewrites the project file whenever `projectOptions` changes, so `entries` stands for both. Names and texts are model values, and `Empty` is the text of an emptied editor or a newly created file.

`Init` is the constructor with no project open. It can also be `openFromArgument` on a `.mcrl2` file, which loads it and enters specification-only mode. The actions are the `FileSystem` methods:

* `EditSpecification` is a text change, with the `modificationChanged` signal that sets the flag;
* `newProject` creates a project in a folder and calls `save(true)`;
* `save` is a save, plain or forced, and falls back to `saveAs` when nothing is open;
* `saveAs` covers both of its branches;
* `newProperty`, `importProperties`, `editProperty` and `deleteProperty` are the property operations, each with its `saveProperty`, project-file update and file deletion;
* `openProjectFromFolder` reopens the same project, either through `openProject` (lines 716–726) in the same session, which keeps the temporary folder, or at the start of a new session (`newSession`), which has a new, empty one. When the specification file was deleted as well, `loadSpecification` fails, and the IDE stays without a project;
* `savePropertyForParsing` is `saveProperty(property, true)`, as the parsing of a property in the property dialog calls it (outside `src/`): any property text, saved or not, is written to the temporary folder;
* `createReinitialisedSpecification(p, forParsing)` has two callers outside `src/`: the verification steps, with a property of the project and `forParsing` false, and the parsing of a property, with the text of its parse copy and `forParsing` true. Unless `upToDateOutputFileExists` finds the file in the temporary folder no older than both the specification file and `propertyFilePath(p, forParsing)` (`PropertyFileTime`), it reads the specification file, replaces the init block with the property's process expression, and writes the result. The model keeps the pair of texts the file is made of;
* `isSpecificationNewlyModifiedFromOutside` is the main window's check for changes made by other programs: it compares the file's time with the last known one and records it.

Every handler that writes files stamps them with `now` and advances the clock (`WriteFiles`). So a later write always has a later time: the model's clock is finer than the time between two writes. A handler that writes nothing leaves the clock alone.

A new project or a save as goes to a new folder or to the current folder chosen again (`sameFolder`). The project name is the folder's name, so only the folder chosen again keeps the reinitialised specifications of the session. The main window, which is not under `src/`, offers the property operations and reopening only with a project open, and no project operation in specification-only mode; these are guards. The dialogs' checks that a name is free are guards too. Before a reopen, any set of existing files may be deleted outside the IDE (`gone`). `ReopenOutcomes` is the read loop of lines 676–711, with `findPropertyFilePath` and `readPropertyFromFile`. It gives the set of results the loop can end with, because for every entry without a file the user answers the "remove from project file" question. `removePropertyFromProjectFile` walks the live `QDomNodeList` by index and removes as it goes, so the element after a removed one is skipped; `RemoveEntriesFrom` follows that loop. QDir lists a folder in name order, so `name.equ` comes before `name.mcf`.

**Findings.** Both break `ReopenRestoresSession`: what the IDE shows as saved is not what opening it again gives back.

* In specification-only mode, `saveAs` creates the new file by opening it `WriteOnly` (line 959). It then calls `save()` without forcing (line 964), and `save` writes only a modified specification. Saving an unmodified specification under a new name therefore leaves an empty file, while the editor shows the text as saved in it. This is the one-step trace the `filesystem_reopen` run reports.
* `editProperty` saves the edited property under its new name and kind, but never removes the file of the old one. `findPropertyFilePath` returns the first matching file. When an equivalence property is changed into a mu-calculus formula, the next reopen reads the old `.equ` file, and the edit is lost. TLC reports this trace when the specification-only start is left out of `Init`. The same happens after a rename away from an `.equ` file, or after a new project in the same folder, when a mu-calculus property takes the old name. An entry kept after its file was deleted is not in memory either, so `editProperty` can rename a property onto it, and the project file then lists the name twice. Deleting that property then removes only one of two adjacent entries (line 887), and the next reopen reads the property back.

## Runs

| Run | Config | Checks | Shows |
|---|---|---|---|
| `jitty` | `MCJitty.cfg` | `TypeOK`, `NormalFormClaimsHold`, `RewritesToNormalForm` | The rewriter returns the normal form, and every term it treats as normal is normal. |
| `hashset` | `MCUnorderedSet.cfg` | `TypeOK`, `UniqueKeys`, `CountIsExact`, `ImplementsSet` | No key is ever stored twice, and the counter always equals the number of nodes, whatever the interleaving of calls and rehashes. The table implements `SetSpec` (702 states). |
| `solver` | `MCSolver.cfg` | `TypeOK`, `ParseCacheSound`, `AbortFlagIsCurrent`, `SolveReturns` | With one solve at a time, the parse cache never serves another specification's data, `m_abort` is set during a solve only by an abort of that solve, and every solve returns. |
| `project_manager` | `MCProjectManager.cfg` | `TypeOK`, `ReverseDependsExact`, `NoOrphans`, `GeneratorsPrecede` | From every way the constructor can start, and through any sequence of `add`, `import_file` and `remove`: `reverse_depends` holds exactly the inputs of listed processors, `remove` leaves no processor without its generator, and generators are listed before their users. |
| `project_manager_broken_file` | `MCProjectManagerBroken.cfg` | `NoOutputConflict` (violation) | A project file that fails part-way leaves what was read, and the directory import adds a second processor for each of those files. |
| `confluence` | `MCConfluence.cfg` | `TypeOK`, `ImplementsConfluenceSpec` | For every subsequence of five summands whose summation variables have distinct names, and each confluence type, `run()` implements `ConfluenceSpec`: it returns, and it renames only confluent tau summands to ctau. |
| `confluence_shared_names` | `MCConfluenceShared.cfg` | `MarkedAreConfluent` (violation) | With a summation variable name shared between two summands, or a summand with a variable paired with itself, a non-confluent tau summand is renamed to ctau. |
| `filesystem` | `MCFileSystem.cfg` | `TypeOK`, `ProjectFileListsProperties`, `EveryPropertyHasItsFile`, `ProjectSpecificationSaved`, `SpecificationChangesNotMisreported` | From either start, through any sequence of new projects, saves, saves as, property operations and reopenings, every property in memory has a project-file entry and a file holding its text. With a project open, an unmodified editor matches the specification file. The IDE's own writes are never reported as outside changes. |
| `filesystem_reopen` | `MCFileSystemReopen.cfg` | `ReopenRestoresSession` (violation) | Saving an unmodified specification as a new file leaves the file empty. With a project, changing a property's kind leaves the old file, which a reopen reads back. |
| `stategraph_marking` | `MCStategraphLocal.cfg` | `TypeOK`, `MarkingWithinBelongs`, `ResultIsLeastFixpoint`, `MarkingWithinOld`, `Terminates` | For every choice of significant variables and every worklist order, the algorithm stops. Its marking is the least fixpoint of rules 1 and 2 above the initial marking, and lies within the old algorithm's marking. |
| `cleave_independent_condition` | `MCCleave.cfg` | `CleavePreservesBehaviour` (violation) | The two components `lpscleave` writes, composed as the code describes, have steps the original LPS lacks when an owned summand's condition reads the other component's parameters. |
| `stategraph_cross_graph` | `MCStategraphLocalCross.cfg` | `CrossGraphMarkingPropagated` (violation) | The result does not satisfy the cross-graph rule of the old algorithm (`compute_control_flow_marking_old`, `is_marked_in_other_graph`). |

The properties:

* `NormalFormClaimsHold` covers three ways a term is treated as already normal:
  * a cached argument `rw[i]` equals `RefNF` of the argument;
  * a binding flagged `variable_is_a_normal_form` is a normal form;
  * a `Rewritten@@term` wrapper holds a normal form.

  A false claim is returned unrewritten.
* `RewritesToNormalForm` is `Abstract!CheckedSpec` of `RewriteSpec`, through `INSTANCE … WITH`. `rewrite` terminates, and its result is `RefNF(input)`. It includes the assertion at `jitty.cpp:687` that no marker is left.
* `UniqueKeys` holds only if bucket indices stay consistent across rehashes and pushes.
* `CountIsExact` checks that `size()` agrees with the table.
* `ImplementsSet` covers the following:
  * `emplace` returns true exactly for new keys;
  * `count` finds exactly the stored keys;
  * `erase`, by key or by iterator, removes the key;
  * `clear` empties the set;
  * `rehash` is invisible.

* `MarkingWithinBelongs` says that a marking never holds a parameter that does not belong to its graph.
* `ResultIsLeastFixpoint` compares the result at `done` with `LeastFixpointFrom`, a RECURSIVE reference that applies both rules to all vertices until nothing changes.
* `MarkingWithinOld` says that the result marks nothing that `compute_control_flow_marking_old` does not mark.
* `Terminates` is `<>(pc = "done")`.
* `ImplementsConfluenceSpec` says that `run()` implements `ConfluenceSpec`. The LPS changes once. That change renames only confluent tau summands to ctau and alters nothing else, and `run()` returns. Only then can ctau steps be given priority over the others without losing behaviour.
* `MarkedAreConfluent` (violation run only) says that every index in the result vector is a confluent summand.

* `ProjectFileListsProperties` says that every property in memory has an entry in the project file, so the next session looks for it.
* `EveryPropertyHasItsFile` says that the file of each property's name and kind holds its text.
* `ProjectSpecificationSaved` says that with a project open and the modified flag clear, the editor and the specification file agree. Specification-only mode is left out because `filesystem_reopen` shows it failing there.
* `SpecificationChangesNotMisreported` says that with a project open, the last known time of the specification file is its time. So the check for outside changes never reports the IDE's own writes. In specification-only mode this fails: `saveAs` of an unmodified specification creates the new file (line 959), but `save()` writes nothing and records no time (line 925). The next check then reports the empty file as changed from outside. TLC finds this one-step trace when the antecedent includes specification-only mode; it is the same `saveAs` path as the `filesystem_reopen` finding, so the run keeps to project mode.
* `ReopenRestoresSession` says that when a project or a specification is open and the flag is clear, a reopen gives back the editor's text and exactly the properties in memory.

**Reinitialised specifications.** The output path of `createReinitialisedSpecification` (lines 137–138) names the project, the property and the spec type, but not `forParsing`. The property file it compares with does depend on `forParsing`. With both callers in the model, TLC finds this four-step trace for the statement "a reinitialised specification the up-to-date check would reuse for a property of the project was made from that property's text and the current specification file":

1. A save writes the specification.
2. The parsing of `p1` writes a parse copy with text `t1`.
3. `newProperty` saves `p1` with text `t2`.
4. The parsing builds the reinitialised specification from `t1`.

That file is newer than the saved `p1` and than the specification. So a verification of `p1` would reuse the specification built for `t1`. The same reuse follows from a parse copy of an edited but cancelled property. The statement is therefore not one of the `filesystem` run's invariants. The trace is recorded here and in the hazard at `filesystem.cpp:1022`.

**Solver hazard.** `Solver` can model a GUI that queues a `solve()` while one runs (`GuiSolveWhileBusy`). The nested `solve()` then resets `m_abort`, so an aborted outer solve goes on emitting solutions. It also reparses `m_data_spec` while the outer enumerator (line 86) holds it by reference. Whether the GUI can do this is decided outside `src/`, so the run keeps the constant false, and these remain hazards without a checked property. The comment at line 113 shows that `processEvents` is there to deliver `abort()`. It delivers any queued `solve()` as well.

**Project manager finding.** The constructor catches a failing `read()` (line 58), sets `b`, and imports the directory (line 65), because the file is "probably broken". The processors that `read(reader)` pushed before the failure (line 249) are not cleared. Each of their files ends up with two processors, and the next `write()` stores both. `write()` truncates the file before writing it (line 138), so a crash during a save produces exactly such a file.

**Finding.** Markings start inside `belongs` and rule 1 only adds what is in `belongs`. So every marking stays in `belongs` (`MarkingWithinBelongs`), and the guard of rule 2 at line 449, `!belongs_contains(Bk, Y, d)` for `d` in a marking of graph `k`, is never true. The rule-2 pass is dead code. The old algorithm marks a parameter in graph `k0` whenever a vertex of the same name is marked with it in any other graph. The `stategraph_cross_graph` run shows a state in which the new result misses such a marking.

Each property has a mutant in `PROJECT.json`, a plausible bug in the code that TLC catches under the run's config:

* stopping the strategy loop one step too far;
* passing every argument as a normal form;
* not resetting the assignments;
* not rounding the bucket count;
* not updating the mask;
* decrementing on an absent key;
* walking only the first node of a bucket;
* reading the enumerator one past its end;
* keeping `m_parsed` after a failed parse;
* not resetting `m_abort` on entry to `solve`;
* looping without `++i`;
* appending in `add` without the duplicate check;
* not registering reverse dependencies in `add`;
* removing a processor without its dependents;
* weighting by the least generator weight;
* letting the graph counter run past `J`;
* not filtering the initial marking by `belongs`;
* running rule 1 over every parameter of `v` instead of `v`'s marking;
* not clearing `stableint` when a marking grows;
* not resetting `stableint` at the start of a round;
* dropping the action-argument conjunct `fj = fj_gi` from the square condition;
* relabelling the summand after the confluent one;
* reading an entry without a file as a property in the reopen loop;
* not renaming the entry of a renamed property;
* not saving an edited property;
* writing the specification only on a forced save;
* not recording the time of a save.

## Bounds

**Jitty.** The data specification in `MCJitty` is chosen so that every branch of the rewriter is taken:

* Booleans;
* Peano numbers with `eq` (including the non-linear `eq(x,x)`) and `p`;
* a function-valued `f` and `g`;
* curried `h` and `q`, whose rules have arities 1 and 2;
* conditional constants `c` and `d`, one of whose conditions is false;
* an equation that is rejected.

Twenty input terms include variables bound and unbound by sigma, variable heads and nested redexes. The run reaches 384 states and fires every action and every branch.

**UnorderedSet.** Five keys have hashes 0, 4, 1, 5 and 12. Under four buckets, k1, k2 and k5 share bucket 0, and k3 and k4 share bucket 1. They separate only after one or two doublings. `MaxLoadFactor = 1`, so the fourth insert rehashes to eight buckets. `rehash(9)` forces sixteen, and `rehash(3)` is a request that does nothing. `MaxBuckets = 16` bounds the table.

**StategraphLocal.** Graph 0 has two vertices `x0 → y0`. Graph 1 is the chain `y1 → x1 → y2 → x2 → y3`, so markings travel several steps and the worklist order matters. Two predicate variables X and Y have two data parameters each, one of them used in an unlabelled way, so `belongs` is a strict subset. Sixty-four choices of significant variables at `y0`, `y1` and `y3` give 9,600 states.

**Solver.** There are two specification texts, one of which does not parse, and three expressions: two solutions, none, and ill-formed. Up to four GUI calls give 546 states in the passing run. They allow an abort while idle, an abort during processEvents, a reparse after a failed parse, and a cached parse.

**ProjectManager.** The project file lists four processors: two sources, `r3` on the first source, and `r4` on `r3` and the second source. `r4` is the case in which a wrong weight rule ties it with its generator. Any file order, and every dependency-ordered prefix of a failed read, give 219 initial states. Directory import, one `import_file` and two `add`s (one on a project processor, one on an imported one) bring the run to 19,219 states. The run says `CHECK_DEADLOCK FALSE`, because once the bounded calls are used up the manager waits for the next one.

**Confluence.** The pool has five summands:

* `T1`: `tau` from `x = 0` to `x = 1`;
* `T2`: `sum e . tau . P(y = e)`;
* `A`: `a(y)`;
* `B`: `b(x)`;
* `C`: `sum f . (y == f) -> c(f)`.

The subsequences include LPSs in which a tau summand is confluent only through the argument check (`T1` with and without `B`), and LPSs in which every type accepts or rejects. The run has 96 initial states and 778 distinct states. The violation pool renames `C`'s variable to `e`, and adds `T3 = sum e . (y == 0) -> tau . P(x = e, y = 1)`. The runs say `CHECK_DEADLOCK FALSE`, because `run()` returns after relabelling.

**FileSystem.** There are two property names, two texts, the empty text and both kinds. So a property can change kind, be renamed onto another name, share a name with a file of the other kind, and be imported twice in one selection. Imports select one or two files. `MaxEntries = 3` bounds the project file. Entries can outgrow the properties only through a kept missing entry, and three allows one such duplicate. The run starts from four states: no project, or a specification with each text. `MaxTime = 4` allows three writes: a new project, a property or a parse copy, and then its reinitialised specification or a save. The run reaches 66,942 distinct states in about ten seconds and fires every action, both callers of `createReinitialisedSpecification` included. With `MaxTime = 5` it reaches 1,889,812 states in close to four minutes and the invariants still hold. The violation config keeps `MaxTime = 5`. Deadlock is checked, because an edit of the specification is always possible, even once the clock is used up.

**Cleave.** The parameters are `x` (the left one) and `w`, the values are 0 and 1, and there is one summation variable `e`. The pool has every combination of three conditions (`true`, `w == 0`, `x == w`), `tau` or an action on one of four expressions, and assignments from those expressions: 240 summands. Conditions and assignments across the split, identity and non-identity assignments, and actions that read the other side are all present. One or two summands give 1,385,280 inputs, which TLC checks in about a minute when the property holds. The run says `CHECK_DEADLOCK FALSE` because the tool stops after writing its outputs.

## Fairness

One `rewrite` call runs on a single thread until it finishes. `WF` on the whole next-state relation therefore only says that the thread keeps running. Termination then follows from the rules in `MCJitty`. `RewriteSpec` states "a result eventually appears" as `<>(result # None)`. This is what its weak fairness amounts to, because `Rewrite` is enabled until it is taken. The hash set has no liveness properties. `run()` of the stategraph algorithm is one sequential loop, so `WF_vars(Next)` is justified, and `Terminates` checks that the loops end for every input. The run says `CHECK_DEADLOCK FALSE` because the algorithm stops at `done`. The solver has `WF` on the aterm thread's steps only: the thread keeps delivering events, but the user need not send any. The solver runs also say `CHECK_DEADLOCK FALSE`, because the thread idles once the bounded GUI has stopped. Confluence detection is two nested loops over a finite vector of summands, with nothing to wait for. So `FairSpec` puts `WF_vars(Next)` on the whole of it, and `ImplementsConfluenceSpec` includes the abstract `WF` on `Run`: `run()` returns. The IDE's file system has no liveness property: every operation is a user's call and completes in one step.

## Not modelled yet, and the plan

* Lambda, where clauses and quantifiers in the rewriter, and capture avoidance in `subst_values`.
* Concurrent `emplace` on a `ThreadSafe` set (`unordered_set_implementation.h:105`). Whether callers serialise the calls is decided outside `src/`, and spec.md §5 requires a global lock. Under that lock the calls are the sequential ones `UnorderedSet` checks.
* The GUI that calls the solver's slots, and a direct, non-queued call of `abort()` (`solver.cpp:134`). That would be a data race, and it depends on connection code outside `src/`.
* squadt's update machinery (`update`, `update_single`, `update_status`, `clean_store`) and the processor implementation, which are outside `src/`.
* The stategraph global algorithm, the worklist order of the old local algorithm (its result does not depend on it, so it is an operator), and the printing functions.
* In `lpscleave`: loading and saving the files, the parameter listing of an empty `-p`, `compute_indices` (only printed), global variables, time (rejected at `dependency_cleave.cpp:224`) and the action declarations added to the output. In confluence, the unused helpers `disjoint`, `has_ctau_action` and the printing operator, and the time and stochastic distribution of a summand, which the conditions ignore.
* In mcrl2ide: the old project-file format (`convertProjectFileToNewFormat`); the modification-time checks of the other intermediate files (LPS, LTS, PBES), whose callers are in the main window; a clock coarser than the time between two writes, under which `upToDateOutputFileExists` (`<=`, where its comment says "larger") takes a file written in the same tick as its input for up to date; a second project folder of the same name opened in one session (a reopen of the same folder in the same session is modelled), whose files could match the session's reinitialised specifications; malformed property files, and the reaction of the main window to a change made from outside, which is not under `src/`. The editor widgets and dialogs are GUI code.
* The rest: data reconstruction, parsers, file formats and GUI code. These are translations or I/O and hold no state that TLC can say anything about.
