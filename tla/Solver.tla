------------------------------- MODULE Solver -------------------------------
(***************************************************************************)
(* The mcrl2xi solver (src/tools/release/mcrl2xi/solver.cpp).               *)
(*                                                                         *)
(* The Solver object is moved to the aterm thread (constructor, line 20),  *)
(* so the GUI's calls of the slots solve() and abort() are queued events   *)
(* of that thread.  The thread delivers them one at a time from its event  *)
(* loop, and also from inside a running solve(): after each solution,      *)
(* line 113 calls QCoreApplication::processEvents, which delivers every    *)
(* pending event, a queued solve() included.  Such a solve() runs nested   *)
(* inside the outer one, so the thread's state is a stack of solve frames. *)
(*                                                                         *)
(* The data is abstracted: a specification either parses or not, an       *)
(* expression is well formed or not and has a number of solutions.  An    *)
(* enumeration that throws after its solutions (exprError) leaves the loop *)
(* like one that is exhausted, so it is not told apart.                    *)
(***************************************************************************)
EXTENDS Naturals, Sequences

CONSTANTS
  Specs,            \* the specification texts the GUI can send
  Exprs,            \* the data expressions the GUI can send
  Parses,           \* the specifications that parseMcrl2Specification accepts
  WellFormed,       \* the expressions 'x:T.b' with b of sort Bool
  Solutions,        \* Exprs -> Nat, the solutions the enumerator yields
  MaxSends,         \* bound on the number of GUI calls
  GuiSolveWhileBusy,\* whether the GUI may call solve() while one is pending
  NoSpec,           \* the empty QString m_specification starts as
  Broken            \* a data specification left half-written by a failed parse

ASSUME /\ Parses \subseteq Specs /\ WellFormed \subseteq Exprs
       /\ Solutions \in [Exprs -> Nat]
       /\ MaxSends \in Nat /\ GuiSolveWhileBusy \in BOOLEAN

VARIABLES
  queue,            \* pending queued slot calls of the aterm thread
  stack,            \* active solve() calls, outermost first
  m_abort,
  m_parsed,
  m_specification,
  m_data_spec,      \* the specification m_data_spec was parsed from
  sends             \* number of GUI calls so far

vars == <<queue, stack, m_abort, m_parsed, m_specification, m_data_spec, sends>>

SolveMsg == [kind : {"solve"}, spec : Specs, expr : Exprs]
AbortMsg == [kind : {"abort"}]

(* A solve frame: the enumeration position i, and whether the user's      *)
(* abort has been delivered while this call was active.                    *)
(* The enumerator never moves past its end: i <= Solutions[expr].         *)
Frame == UNION {[spec : Specs, expr : {e}, i : 0 .. Solutions[e],
                 pc : {"loop", "events"}, aborted : BOOLEAN] : e \in Exprs}

Top == stack[Len(stack)]
Pop == SubSeq(stack, 1, Len(stack) - 1)

(* The thread takes an event from its queue when idle in its event loop,  *)
(* or inside processEvents at line 113.                                    *)
ReadyForEvents == IF stack = <<>> THEN TRUE ELSE Top.pc = "events"

-----------------------------------------------------------------------------
(* The GUI thread: calls of the slots through queued connections.         *)

SolvePending == stack # <<>> \/ \E n \in 1 .. Len(queue) : queue[n].kind = "solve"

GuiSolve(s, e) ==
  /\ sends < MaxSends
  /\ GuiSolveWhileBusy \/ ~SolvePending
  /\ queue' = Append(queue, [kind |-> "solve", spec |-> s, expr |-> e])
  /\ sends' = sends + 1
  /\ UNCHANGED <<stack, m_abort, m_parsed, m_specification, m_data_spec>>

GuiAbort ==
  /\ sends < MaxSends
  /\ queue' = Append(queue, [kind |-> "abort"])
  /\ sends' = sends + 1
  /\ UNCHANGED <<stack, m_abort, m_parsed, m_specification, m_data_spec>>

-----------------------------------------------------------------------------
(* Solver::abort (lines 132-135), delivered from the queue.  Every solve   *)
(* on the stack is marked: the user meant to stop what is running.         *)
Abort ==
  /\ ReadyForEvents
  /\ queue # <<>> /\ Head(queue).kind = "abort"
  /\ queue' = Tail(queue)
  /\ m_abort' = TRUE
  /\ stack' = [n \in 1 .. Len(stack) |-> [stack[n] EXCEPT !.aborted = TRUE]]
  /\ UNCHANGED <<m_parsed, m_specification, m_data_spec, sends>>

(* Mutant: m_abort is not reset on entry (line 27 dropped).               *)
Solve_NoAbortReset ==
  /\ ReadyForEvents
  /\ queue # <<>> /\ Head(queue).kind = "solve"
  /\ LET msg     == Head(queue)
         reparse == m_specification # msg.spec \/ ~m_parsed
         parsed  == IF reparse THEN msg.spec \in Parses ELSE m_parsed
     IN /\ queue' = Tail(queue)
        /\ UNCHANGED m_abort
        /\ m_specification' = msg.spec
        /\ m_parsed' = parsed
        /\ IF ~reparse THEN UNCHANGED m_data_spec
           ELSE IF parsed THEN m_data_spec' = msg.spec
           ELSE m_data_spec' \in {m_data_spec, Broken}
        /\ stack' = IF parsed /\ msg.expr \in WellFormed
                    THEN Append(stack, [spec |-> msg.spec, expr |-> msg.expr,
                                        i |-> 0, pc |-> "loop", aborted |-> FALSE])
                    ELSE stack
  /\ UNCHANGED sends

(* Mutant: a failed parse leaves m_parsed as it was (line 30 dropped).   *)
Solve_KeepsParsed ==
  /\ ReadyForEvents
  /\ queue # <<>> /\ Head(queue).kind = "solve"
  /\ LET msg     == Head(queue)
         reparse == m_specification # msg.spec \/ ~m_parsed
         parsed  == IF reparse THEN msg.spec \in Parses \/ m_parsed ELSE m_parsed
     IN /\ queue' = Tail(queue)
        /\ m_abort' = FALSE
        /\ m_specification' = msg.spec
        /\ m_parsed' = parsed
        /\ IF ~reparse THEN UNCHANGED m_data_spec
           ELSE IF msg.spec \in Parses THEN m_data_spec' = msg.spec
           ELSE m_data_spec' \in {m_data_spec, Broken}
        /\ stack' = IF parsed /\ msg.expr \in WellFormed
                    THEN Append(stack, [spec |-> msg.spec, expr |-> msg.expr,
                                        i |-> 0, pc |-> "loop", aborted |-> FALSE])
                    ELSE stack
  /\ UNCHANGED sends

(* Solver::solve, lines 24-89, delivered from the queue: reset m_abort,    *)
(* reparse when the text changed or the last parse failed, check the       *)
(* expression, rewrite it and start the enumeration.  A parse error or an  *)
(* ill-formed expression emits its error and finished() in the same call, *)
(* so only a call that reaches the loop of line 90 stays on the stack.     *)
Solve ==
  /\ ReadyForEvents
  /\ queue # <<>> /\ Head(queue).kind = "solve"
  /\ LET msg     == Head(queue)
         reparse == m_specification # msg.spec \/ ~m_parsed
         parsed  == IF reparse THEN msg.spec \in Parses ELSE m_parsed
     IN /\ queue' = Tail(queue)
        /\ m_abort' = FALSE
        /\ m_specification' = msg.spec
        /\ m_parsed' = parsed
        /\ IF ~reparse THEN UNCHANGED m_data_spec
           ELSE IF parsed THEN m_data_spec' = msg.spec
           ELSE m_data_spec' \in {m_data_spec, Broken}
        /\ stack' = IF parsed /\ msg.expr \in WellFormed
                    THEN Append(stack, [spec |-> msg.spec, expr |-> msg.expr,
                                        i |-> 0, pc |-> "loop", aborted |-> FALSE])
                    ELSE stack
  /\ UNCHANGED sends

(* Mutant: the enumerator is read one past its end.                      *)
EmitSolution_PastEnd ==
  /\ stack # <<>> /\ Top.pc = "loop"
  /\ Top.i <= Solutions[Top.expr] /\ ~m_abort
  /\ stack' = [stack EXCEPT ![Len(stack)].pc = "events"]
  /\ UNCHANGED <<queue, m_abort, m_parsed, m_specification, m_data_spec, sends>>

(* Line 90, the loop test true: a solution is printed and emitted          *)
(* (lines 92-111), then processEvents is entered.                          *)
EmitSolution ==
  /\ stack # <<>> /\ Top.pc = "loop"
  /\ Top.i < Solutions[Top.expr] /\ ~m_abort
  /\ stack' = [stack EXCEPT ![Len(stack)].pc = "events"]
  /\ UNCHANGED <<queue, m_abort, m_parsed, m_specification, m_data_spec, sends>>

(* Line 90, the loop test false: the enumeration is exhausted, throws in   *)
(* ++i (exprError, lines 119-123), or m_abort is set; the call logs at     *)
(* line 117, emits finished() and returns.                                 *)
LoopExit ==
  /\ stack # <<>> /\ Top.pc = "loop"
  /\ Top.i >= Solutions[Top.expr] \/ m_abort
  /\ stack' = Pop
  /\ UNCHANGED <<queue, m_abort, m_parsed, m_specification, m_data_spec, sends>>

(* Mutant: the loop goes back to its test without ++i.                  *)
EventsDone_NoAdvance ==
  /\ stack # <<>> /\ Top.pc = "events" /\ queue = <<>>
  /\ stack' = IF m_abort THEN Pop
              ELSE [stack EXCEPT ![Len(stack)].pc = "loop"]
  /\ UNCHANGED <<queue, m_abort, m_parsed, m_specification, m_data_spec, sends>>

(* Lines 113-116 once processEvents has emptied the queue: break when      *)
(* m_abort is set, otherwise ++i and back to the loop test.                *)
EventsDone ==
  /\ stack # <<>> /\ Top.pc = "events" /\ queue = <<>>
  /\ stack' = IF m_abort THEN Pop
              ELSE [stack EXCEPT ![Len(stack)].pc = "loop",
                                 ![Len(stack)].i = @ + 1]
  /\ UNCHANGED <<queue, m_abort, m_parsed, m_specification, m_data_spec, sends>>

Init ==
  /\ queue = <<>>
  /\ stack = <<>>
  /\ m_abort = FALSE
  /\ m_parsed = FALSE
  /\ m_specification = NoSpec
  /\ m_data_spec = NoSpec
  /\ sends = 0

SolverStep == Abort \/ Solve \/ EmitSolution \/ LoopExit \/ EventsDone

Next ==
  \/ \E s \in Specs, e \in Exprs : GuiSolve(s, e)
  \/ GuiAbort
  \/ SolverStep

(* The aterm thread keeps running; the GUI need not send anything.         *)
Spec == Init /\ [][Next]_vars /\ WF_vars(SolverStep)

-----------------------------------------------------------------------------
TypeOK ==
  /\ queue \in Seq(SolveMsg \cup AbortMsg)
  /\ stack \in Seq(Frame)
  /\ m_abort \in BOOLEAN /\ m_parsed \in BOOLEAN
  /\ m_specification \in Specs \cup {NoSpec}
  /\ m_data_spec \in Specs \cup {NoSpec, Broken}
  /\ sends \in 0 .. MaxSends

(* The parse cache of lines 28-41: whenever m_parsed is set, m_data_spec   *)
(* is the parse of m_specification, so a later solve that skips parsing    *)
(* never works on the data of another (or a half-parsed) specification.    *)
ParseCacheSound ==
  m_parsed => m_data_spec = m_specification

(* While a solve runs, m_abort is set only by an abort delivered during    *)
(* it: the reset at line 27 keeps an abort that arrived while idle from    *)
(* stopping the next solve and from being logged as "Abort by user."       *)
AbortFlagIsCurrent ==
  stack # <<>> /\ m_abort => Top.aborted

(* Every solve that reaches the enumeration loop eventually returns and    *)
(* emits finished(): the loop of line 90 advances the enumerator.          *)
SolveReturns ==
  stack # <<>> ~> stack = <<>>

=============================================================================
