---------------------------- MODULE ScriptOutput ----------------------------
(***************************************************************************)
(* libs/pyscript: how Script redirects Python's sys.stdout and sys.stderr. *)
(* A hook (ScriptStdOutHook, ScriptStdErrHook) is a C++ object; installing *)
(* it makes a Python object (ScriptStdOut, ScriptStdErr) that takes the    *)
(* place of the one in sys, which it keeps in old_stdout_ / old_stderr_.   *)
(* The two classes are the same up to the stream.                          *)
(*                                                                         *)
(* Script::install makes two hooks that stay, run_simpleString two more    *)
(* that live as long as the call when the caller passes a buffer.  While   *)
(* Python code runs it may write, keep a reference to an output object,    *)
(* put it back into sys, delete it from sys, raise, and call C++ code that *)
(* runs more Python.                                                       *)
(* Py_DECREF frees an object as soon as nobody refers to it, so references *)
(* are counted.                                                            *)
(*                                                                         *)
(* A hook makes exactly one object: a record stands for both.              *)
(***************************************************************************)
EXTENDS Integers, Sequences, FiniteSets

CONSTANTS
  MaxHooks,     \* bound: hooks made between two installs of the interpreter
  MaxActs,      \* bound: writes and references taken by Python code
  MaxDepth      \* bound: run_simpleString calls inside each other

ASSUME ScriptAssumption == MaxHooks \in Nat /\ MaxActs \in Nat /\ MaxDepth \in Nat

VARIABLES
  sys,          \* sys.stdout and sys.stderr: None if there is no such attribute
  hook,         \* the hooks made so far, each with its object
  pyStdErrHook_, pyStdOutHook_,  \* Script's hooks: numbers of hooks, or None
  frames,       \* the calls of run_simpleString that are running
  saved,        \* an output object that a Python variable refers to, or None
  acts,         \* what Python code has done so far, counted
  error,        \* Python's error indicator may be set
  failed,       \* history: an import of sys failed
  touched,      \* history: Python code assigned sys.stdout or sys.stderr, or deleted one
  fault         \* a write reached an object whose hook is gone

vars == <<sys, hook, pyStdErrHook_, pyStdOutHook_, frames, saved, acts, error,
          failed, touched, fault>>

Stream == {"out", "err"}
\* what a write begins with: a newline, or anything else, as "oops\n" does
Text == {"text", "newline"}
Orig == 0      \* the interpreter's own output objects
None == -1
Hooks == 1..Len(hook)
Silence == [s \in Stream |-> <<>>]

Init ==
  /\ sys = [s \in Stream |-> Orig] /\ hook = <<>>
  /\ pyStdErrHook_ = None /\ pyStdOutHook_ = None
  /\ frames = <<>> /\ saved = None /\ acts = 0
  /\ error = FALSE /\ failed = FALSE /\ touched = FALSE /\ fault = FALSE

-----------------------------------------------------------------------------
(* References.  st is a record of sys and hook as an operation leaves them. *)

IncRef(hs, o) == IF o \in {Orig, None} THEN hs ELSE [hs EXCEPT ![o].refs = @ + 1]
DecRef(hs, o) == IF o \in {Orig, None} THEN hs ELSE [hs EXCEPT ![o].refs = @ - 1]

\* PyObject_SetAttrString(sys, ...)
SetSys(st, s, o) ==
  [sys |-> [st.sys EXCEPT ![s] = o], hook |-> DecRef(IncRef(st.hook, o), st.sys[s])]

-----------------------------------------------------------------------------
(* The hooks *)

\* ScriptStdOut::install: object h takes the place of the one in sys and keeps
\* that, which is NULL if sys has none (and Python's error is set)
ObjectInstall(st, s, h) ==
  SetSys([st EXCEPT !.hook = [IncRef(@, st.sys[s]) EXCEPT ![h].old = st.sys[s]]], s, h)

\* new ScriptStdOutHook(buffer) for frame f and its install(); ok: sys could be
\* imported.  Otherwise the new object is referred to by nobody but the hook.
HookInstall(st, s, f, ok) ==
  LET h == Len(st.hook) + 1
      made == [st EXCEPT !.hook = Append(@, [stream |-> s, frame |-> f, alive |-> TRUE, refs |-> 1,
                 pStdOut |-> "owned", isInstall |-> ok, wbuffer |-> <<>>, old |-> None])]
  IN  IF ok THEN ObjectInstall(made, s, h) ELSE made

\* mutant: the old object is not released
ObjectUninstallKeep(st, h) == SetSys(st, st.hook[h].stream, st.hook[h].old)

\* mutant: the interpreter's own object goes into sys instead of the old one
ObjectUninstallOriginal(st, h) ==
  LET r == SetSys(st, st.hook[h].stream, Orig)
  IN  [r EXCEPT !.hook = [DecRef(@, st.hook[h].old) EXCEPT ![h].old = None]]

\* ScriptStdOut::uninstall: the old object goes back into sys, if there is one
ObjectUninstall(st, h) ==
  LET o == st.hook[h].old
      r == SetSys(st, st.hook[h].stream, o)
  IN  IF o = None THEN st ELSE [r EXCEPT !.hook = [DecRef(@, o) EXCEPT ![h].old = None]]

\* ScriptStdOutHook::uninstall: when sys cannot be imported the object is
\* released, but the pointer stays and isInstall_ too
HookUninstall(st, h, ok) ==
  LET r == IF ok THEN ObjectUninstall(st, h) ELSE st
      released == [r EXCEPT !.hook = DecRef(@, h)]
  IN  [released EXCEPT !.hook[h] =
         IF ok THEN [@ EXCEPT !.pStdOut = "null", !.isInstall = FALSE]
         ELSE [@ EXCEPT !.pStdOut = "dangling"]]

\* mutant: the destructor leaves the object in sys
DeleteHookOnly(st, h, ok) == [st EXCEPT !.hook[h] = [@ EXCEPT !.alive = FALSE, !.wbuffer = <<>>]]

\* the destructor: a hook that could not be installed keeps its object, and what
\* no write that begins with a newline followed is lost
DeleteHook(st, h, ok) ==
  LET r == IF st.hook[h].isInstall THEN HookUninstall(st, h, ok) ELSE st
  IN  [r EXCEPT !.hook[h] = [@ EXCEPT !.alive = FALSE, !.wbuffer = <<>>]]

\* mutant: what completes a line is saved alone
OnWriteLast(line, text) ==
  IF text = "newline" THEN [line |-> <<>>, flushed |-> <<text>>]
  ELSE [line |-> Append(line, text), flushed |-> <<>>]

\* onWrite(text): what the hook keeps, and what goes to its buffer; only a write
\* that begins with a newline takes it there, not one that ends with it
OnWrite(line, text) ==
  IF text = "newline" THEN [line |-> <<>>, flushed |-> Append(line, text)]
  ELSE [line |-> Append(line, text), flushed |-> <<>>]

-----------------------------------------------------------------------------
(* What Python code does.  A step of it that reached a dead hook is the last. *)

Running == frames # <<>> /\ ~fault

\* the innermost call that asked for the output, or 0
Asker(fs) == LET A == {i \in DOMAIN fs : fs[i].buffered}
             IN  IF A = {} THEN 0 ELSE CHOOSE i \in A : \A j \in A : j =< i

\* Python code writes text, meant for stream s, to object o (None: nowhere): wst is
\* a record of hook, frames and fault
WriteTo(wst, s, o, text) ==
  LET asker == Asker(wst.frames)
      heard == IF asker = 0 THEN wst
               ELSE [wst EXCEPT !.frames[asker].wrote[s] = Append(@, text)]
      r == OnWrite(wst.hook[o].wbuffer, text)
      f == wst.hook[o].frame
      kept == [heard EXCEPT !.hook[o].wbuffer = r.line]
  IN  IF o \in {Orig, None} \/ wst.fault THEN heard
      ELSE IF ~wst.hook[o].alive THEN [heard EXCEPT !.fault = TRUE]
      ELSE IF f = 0 THEN kept
      ELSE [kept EXCEPT !.frames[f].buffer[s] = @ \o r.flushed]

\* PyErr_Print and PyErr_PrintEx: several writes, of which the last is the newline
PrintError(wst, o) == WriteTo(WriteTo(wst, "err", o, "text"), "err", o, "newline")

Written == [hook |-> hook, frames |-> frames, fault |-> fault]

\* print and the like
PyWrite(s, text) ==
  /\ Running /\ acts < MaxActs /\ acts' = acts + 1
  /\ LET w == WriteTo(Written, s, sys[s], text)
     IN  hook' = w.hook /\ frames' = w.frames /\ fault' = w.fault
  /\ UNCHANGED <<sys, pyStdErrHook_, pyStdOutHook_, saved, error, failed, touched>>

\* old = sys.stdout
PySave(s) ==
  /\ Running /\ acts < MaxActs /\ acts' = acts + 1
  /\ sys[s] \notin {Orig, None} /\ saved = None
  /\ saved' = sys[s] /\ hook' = IncRef(hook, sys[s])
  /\ UNCHANGED <<sys, pyStdErrHook_, pyStdOutHook_, frames, error, failed, touched, fault>>

\* sys.stdout = old; del old
PyAssign ==
  /\ Running /\ acts < MaxActs /\ acts' = acts + 1
  /\ saved # None
  /\ LET r == SetSys([sys |-> sys, hook |-> hook], hook[saved].stream, saved)
     IN  sys' = r.sys /\ hook' = DecRef(r.hook, saved)
  /\ saved' = None /\ touched' = TRUE
  /\ UNCHANGED <<pyStdErrHook_, pyStdOutHook_, frames, error, failed, fault>>

\* del sys.stdout
PyDelete(s) ==
  /\ Running /\ acts < MaxActs /\ acts' = acts + 1
  /\ sys[s] # None
  /\ LET r == SetSys([sys |-> sys, hook |-> hook], s, None)
     IN  sys' = r.sys /\ hook' = r.hook
  /\ touched' = TRUE
  /\ UNCHANGED <<pyStdErrHook_, pyStdOutHook_, frames, saved, error, failed, fault>>

-----------------------------------------------------------------------------
(* Script *)

State == [sys |-> sys, hook |-> hook]

\* Script::install: both hooks, or none; the second one is not tried after the
\* first failed.  Undoing the first imports sys again (okUndo), and then the
\* exception of the failed import is printed.
Install(okErr, okOut, okUndo) ==
  /\ frames = <<>> /\ pyStdErrHook_ = None /\ Len(hook) + 2 =< MaxHooks /\ ~fault
  /\ LET e == Len(hook) + 1
         o == e + 1
         a == HookInstall(State, "err", 0, okErr)
         b == IF okErr THEN HookInstall(a, "out", 0, okOut) ELSE a
         undone == DeleteHook(b, e, okUndo)   \* the other hook has nothing to undo
         gone == [h \in DOMAIN undone.hook |->
                    [undone.hook[h] EXCEPT !.alive = @ /\ h \notin {e, o}]]
         w == PrintError([Written EXCEPT !.hook = gone], undone.sys["err"])
     IN  IF okErr /\ okOut
         THEN /\ sys' = b.sys /\ hook' = b.hook /\ pyStdErrHook_' = e /\ pyStdOutHook_' = o
              /\ error' = (error \/ None \in {sys["err"], sys["out"]})
              /\ UNCHANGED fault
         ELSE /\ sys' = undone.sys /\ hook' = w.hook /\ fault' = w.fault /\ error' = FALSE
              /\ UNCHANGED <<pyStdErrHook_, pyStdOutHook_>>
  /\ failed' = (failed \/ ~okErr \/ ~okOut)
  /\ UNCHANGED <<frames, saved, acts, touched>>

\* Script::uninstall: the hooks, then the interpreter and all its objects
Uninstall ==
  /\ frames = <<>> /\ pyStdErrHook_ # None /\ ~fault
  /\ sys' = [s \in Stream |-> Orig] /\ hook' = <<>> /\ saved' = None
  /\ pyStdErrHook_' = None /\ pyStdOutHook_' = None /\ error' = FALSE
  /\ UNCHANGED <<frames, acts, failed, touched, fault>>

Frame(buffered, hooks) ==
  [buffered |-> buffered, hooks |-> hooks, before |-> sys, buffer |-> Silence, wrote |-> Silence]

\* run_simpleString(command, NULL) up to its first line of Python
Run ==
  /\ Len(frames) < MaxDepth /\ ~fault
  /\ frames' = Append(frames, Frame(FALSE, <<>>))
  /\ UNCHANGED <<sys, hook, pyStdErrHook_, pyStdOutHook_, saved, acts, error, failed, touched, fault>>

\* ... and with a buffer: install() of the second hook is tried only when that
\* of the first failed (&&); when both fail the exception is printed before the
\* hooks are deleted
RunBuffered(okErr, okOut) ==
  /\ Len(frames) < MaxDepth /\ Len(hook) + 2 =< MaxHooks /\ ~fault
  /\ LET e == Len(hook) + 1
         a == HookInstall(State, "err", Len(frames) + 1, okErr)
         b == IF okErr THEN a ELSE HookInstall(a, "out", Len(frames) + 1, okOut)
         w == PrintError([Written EXCEPT !.hook = b.hook], b.sys["err"])
     IN  IF okErr \/ okOut
         THEN /\ sys' = b.sys /\ hook' = b.hook
              /\ frames' = Append(frames, Frame(TRUE, IF okErr THEN <<e>> ELSE <<e, e + 1>>))
              /\ error' = (error \/ ~okErr \/ sys["err"] = None)
              /\ UNCHANGED fault
         ELSE /\ sys' = b.sys /\ frames' = w.frames /\ fault' = w.fault /\ error' = FALSE
              /\ hook' = DeleteHook(DeleteHook([b EXCEPT !.hook = w.hook], e + 1, TRUE), e, TRUE).hook
  /\ failed' = (failed \/ ~okErr)
  /\ UNCHANGED <<pyStdErrHook_, pyStdOutHook_, saved, acts, touched>>

Last == frames[Len(frames)]
Front(s) == SubSeq(s, 1, Len(s) - 1)

\* the shared_ptrs go out of scope, the last one first
DeleteHooks(st, hooks, ok) ==
  IF hooks = <<>> THEN st
  ELSE IF Len(hooks) = 1 THEN DeleteHook(st, hooks[1], ok)
  ELSE DeleteHook(DeleteHook(st, hooks[2], ok), hooks[1], ok)

\* run_simpleString returns.  An exception of the code that ran (raised) is
\* printed first; then the hooks are deleted (ok: sys could be imported).  A call
\* whose code did not raise prints afterwards what else the error indicator has
\* (late), as that uninstalling failed or installing found no old object.
RunReturns(raised, ok, late) ==
  /\ Running /\ (raised => acts < MaxActs) /\ acts' = acts + (IF raised THEN 1 ELSE 0)
  /\ LET unhookFails == ~ok /\ \E i \in DOMAIN Last.hooks : hook[Last.hooks[i]].isInstall
         printed == IF raised THEN PrintError(Written, sys["err"]) ELSE Written
         r == DeleteHooks([sys |-> sys, hook |-> printed.hook], Last.hooks, ok)
         left == [printed EXCEPT !.hook = r.hook, !.frames = Front(@)]
         checked == IF late THEN PrintError(left, r.sys["err"]) ELSE left
     IN  /\ IF raised THEN ~late ELSE IF unhookFails THEN late ELSE late => error
         /\ sys' = r.sys
         /\ hook' = checked.hook /\ frames' = checked.frames /\ fault' = checked.fault
         /\ error' = (raised /\ unhookFails)
  /\ failed' = (failed \/ (~ok /\ Last.hooks # <<>>))
  /\ UNCHANGED <<pyStdErrHook_, pyStdOutHook_, saved, touched>>

-----------------------------------------------------------------------------
Next ==
  \/ \E okErr, okOut, okUndo \in BOOLEAN : Install(okErr, okOut, okUndo)
  \/ \E okErr, okOut \in BOOLEAN : RunBuffered(okErr, okOut)
  \/ Uninstall \/ Run \/ PyAssign
  \/ \E s \in Stream, text \in Text : PyWrite(s, text)
  \/ \E s \in Stream : PySave(s) \/ PyDelete(s)
  \/ \E raised, ok, late \in BOOLEAN : RunReturns(raised, ok, late)

Spec == Init /\ [][Next]_vars

-----------------------------------------------------------------------------
(* Safety *)

\* the hooks that may stand in sys for stream s: Script's, then those of the
\* running calls, innermost last
Installed(s) == {h \in Hooks : hook[h].alive /\ hook[h].isInstall /\ hook[h].stream = s}
Innermost(s) == IF Installed(s) = {} THEN Orig
                ELSE CHOOSE h \in Installed(s) : \A g \in Installed(s) : g =< h

\* scriptstdout.h:132: uninstalling restores the standard output.  As long as
\* every import of sys succeeds and Python code neither assigns nor deletes
\* sys.stdout or sys.stderr, sys holds the object of the innermost living hook, so
\* no write reaches a hook that was destroyed, however calls of run_simpleString,
\* with buffers and without, and exceptions are nested.
SysIsInnermost ==
  ~failed /\ ~touched => ~fault /\ \A s \in Stream : sys[s] = Innermost(s)

\* A call of run_simpleString that returns leaves the streams it had taken as it
\* found them, even if Python code assigned or deleted them meanwhile, unless
\* uninstall could not import sys.  A stream that did not exist when the call
\* began is not taken away again (scriptstderr.cpp:123): it stays what it is, be
\* it the object of the hook that is destroyed.
RunRestores ==
  [][Len(frames') < Len(frames) =>
       \A i \in DOMAIN Last.hooks :
         LET h == Last.hooks[i]
             before == Last.before[hook[h].stream]
         IN  hook'[h].pStdOut = "null" =>
               sys'[hook[h].stream] = IF before = None THEN sys[hook[h].stream] ELSE before]_vars

\* what refers to object o
Held(o) ==
  \/ saved = o
  \/ \E s \in Stream : sys[s] = o
  \/ hook[o].pStdOut = "owned" /\ hook[o].alive
  \/ \E h \in Hooks : hook[h].old = o /\ hook[h].refs > 0

\* The counts of the Python objects: an object that C++ or Python code can reach
\* has not been freed, and, unless an import of sys failed, one that nobody can
\* reach has been.
ReferencesBalance ==
  \A o \in Hooks : /\ Held(o) => hook[o].refs > 0
                   /\ ~failed /\ ~Held(o) => hook[o].refs = 0

\* script.cpp:116 has Python's output saved to the buffer.  What a call's buffer
\* has of sys.stderr is what Python wrote to it, uncaught exceptions included, up
\* to and including the last write that began with a newline: what was written
\* since, finished lines such as "oops\n" included, stays in wbuffer_ and is lost
\* when the call returns (scriptstderr.h:166).  Nested calls with buffers of their
\* own take nothing away and add nothing.  (What is written to sys.stdout is not
\* in the buffer at all: see RunBuffered.)
ErrorsCaptured ==
  ~failed /\ ~touched =>
    \A i \in DOMAIN frames : frames[i].buffered =>
      LET wrote == frames[i].wrote["err"]
      IN  \E n \in 0..Len(wrote) :
            /\ frames[i].buffer["err"] = SubSeq(wrote, 1, n)
            /\ n > 0 => wrote[n] = "newline"
            /\ \A k \in n + 1..Len(wrote) : wrote[k] # "newline"

=============================================================================
