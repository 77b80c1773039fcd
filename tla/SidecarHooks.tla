------------------------------ MODULE SidecarHooks ------------------------------
(***************************************************************************)
(* What the Python sidecar takes hold of in the program it observes        *)
(* (python/src/smeltr: _shutdown.py, _importhook.py, _api.py): the SIGTERM *)
(* disposition, sys.excepthook, and the imports it waits for.              *)
(*                                                                         *)
(* The program sets handlers and imports libraries in any thread, attaches *)
(* and detaches any number of times, one call after another.  "plain" is   *)
(* the same program without the sidecar.  A signal is no step: Outcome     *)
(* says what one does in a state.                                          *)
(***************************************************************************)
EXTENDS Integers

CONSTANTS
    Libraries,              \* those the sidecar instruments
    NoLibrary,
    MaxChanges, MaxAttaches \* bounds: handlers set; calls of attach

ASSUME HooksAssumption == NoLibrary \notin Libraries

VARIABLES
    real, plain,    \* per slot: the handler now, the one the program kept
    previous,       \* per slot: what attach found, "none" when not installed
    current,        \* install_hooks' local: the disposition it replaced
    api,            \* where attach or detach stands
    byMain,         \* in the main thread?
    todo, looked,   \* libraries to register; the one found absent
    pending,        \* per library: callbacks waiting for its import
    finder,         \* whether sys.meta_path has our finder
    lib,            \* per library: absent, found, executing, fired, loaded
    wrapped,        \* libraries whose loader is ours
    fired,          \* per library: callbacks taken, to be run
    instrumented,   \* libraries a callback has patched
    raced,          \* history: registered while being imported
    leaked,         \* history: slots where ours outlives remove_hooks
    changes, attaches

slots == <<real, plain, previous, current>>
registry == <<pending, finder, fired, instrumented>>
imports == <<lib, wrapped>>
importRest == <<byMain, todo, looked, registry, imports, raced>>
hookVars == <<slots, leaked, api, importRest, changes, attaches>>

Slots == {"sigterm", "excepthook"}
\* "chain" calls the handler it replaced, if that can be called.
Handlers(s) == IF s = "sigterm" THEN {"default", "ignored", "own", "chain"}
               ELSE {"default", "own", "chain"}
Callable == {"own", "chain", "ours"}

HooksInit ==
    /\ real = [s \in Slots |-> [now |-> "default", kept |-> "none"]]
    /\ plain = real /\ previous = [s \in Slots |-> "none"]
    /\ current = "none"
    /\ api = "detached" /\ byMain = TRUE /\ todo = {} /\ looked = NoLibrary
    /\ pending = [m \in Libraries |-> 0] /\ finder = FALSE
    /\ lib \in [Libraries -> {"absent", "loaded"}] /\ wrapped = {}
    /\ fired = [m \in Libraries |-> 0]
    /\ instrumented = {} /\ raced = {} /\ leaked = {}
    /\ changes = 0 /\ attaches = 0

-----------------------------------------------------------------------------
(* The program's handlers.                                                 *)

Replaced(slot, h) ==
    [now |-> h, kept |-> IF h = "chain" THEN slot.now ELSE slot.kept]

Change(s, inReal, inPlain) ==
    /\ changes < MaxChanges /\ changes' = changes + 1
    /\ real' = [real EXCEPT ![s] = inReal]
    /\ plain' = [plain EXCEPT ![s] = inPlain]
    /\ leaked' = IF inReal.kept = "ours" THEN leaked \cup {s} ELSE leaked
    /\ UNCHANGED <<previous, current, importRest, api, attaches>>

\* No handler chains to itself.
SetHandler(s) ==
    \E h \in Handlers(s) :
        /\ h = "chain" => plain[s].now # "chain"
        /\ Change(s, Replaced(real[s], h), Replaced(plain[s], h))

PutBack(slot) == [slot EXCEPT !.now = slot.kept]
RestoreHandler(s) ==
    /\ plain[s].now = "chain"
    /\ Change(s, PutBack(real[s]), PutBack(plain[s]))

\* The program's handler that runs when h is called: ours hands over to what it
\* found, and ends the program when SIGTERM's was the default
\* (_sigterm_handler, _excepthook).
HandsOver(s, h, prev) ==
    IF h # "ours" THEN h
    ELSE IF s = "sigterm" /\ prev \notin Callable THEN "default" ELSE prev

\* Whom that one calls.
Callee(s, h, kept, prev) ==
    IF h = "chain" /\ (s = "excepthook" \/ kept \in Callable)
    THEN HandsOver(s, kept, prev) ELSE "none"

\* The program's handlers, and the default, in the order they run: the second
\* calls nobody, unless one calls itself.
Outcome(s, slot, prev) ==
    LET first == HandsOver(s, slot.now, prev)
    IN  <<first, Callee(s, first, slot.kept, prev)>>

-----------------------------------------------------------------------------
(* attach(): install_hooks, then _install_on_import; detach().              *)

Attach ==
    /\ api \in {"detached", "attached"} /\ attaches < MaxAttaches
    /\ attaches' = attaches + 1 /\ api' = "hooking" /\ byMain' \in BOOLEAN
    /\ UNCHANGED <<slots, leaked, todo, looked, registry, imports, raced,
                   changes>>

HookExceptions ==
    /\ api = "hooking" /\ api' = "signal"
    /\ IF previous["excepthook"] = "none"
       THEN /\ previous' = [previous EXCEPT
                              !["excepthook"] = real["excepthook"].now]
            /\ real' = [real EXCEPT !["excepthook"].now = "ours"]
       ELSE UNCHANGED <<real, previous>>
    /\ UNCHANGED <<leaked, plain, current, importRest, changes, attaches>>

\* Mutant: an ignored signal is hooked as well.
MayHookAny == previous["sigterm"] = "none" /\ byMain

\* Python lets only the main thread set a signal's handler; an ignored signal
\* stays ignored.
MayHook == /\ previous["sigterm"] = "none" /\ byMain
           /\ real["sigterm"].now # "ignored"

\* A signal that comes before the next step finds no previous handler.
HookSignal ==
    /\ api = "signal"
    /\ IF MayHook
       THEN /\ api' = "remember" /\ current' = real["sigterm"].now
            /\ real' = [real EXCEPT !["sigterm"].now = "ours"]
       ELSE api' = "imports" /\ UNCHANGED <<real, current>>
    /\ todo' = Libraries
    /\ UNCHANGED <<leaked, plain, previous, byMain, looked, registry, imports,
                   raced, changes, attaches>>

Remember ==
    /\ api = "remember" /\ api' = "imports"
    /\ previous' = [previous EXCEPT !["sigterm"] = current]
    /\ current' = "none"
    /\ UNCHANGED <<leaked, real, plain, importRest, changes, attaches>>

InModules(m) == lib[m] \in {"executing", "fired", "loaded"}

\* when_imported: a library in sys.modules is instrumented at once, even when
\* it is still executing.
WhenImported(m) ==
    /\ api = "imports" /\ looked = NoLibrary /\ m \in todo
    /\ todo' = todo \ {m}
    /\ IF InModules(m)
       THEN instrumented' = instrumented \cup {m} /\ UNCHANGED looked
       ELSE looked' = m /\ UNCHANGED instrumented
    /\ UNCHANGED <<slots, leaked, api, byMain, pending, finder, fired, imports,
                   raced, changes, attaches>>

Register ==
    /\ looked # NoLibrary /\ looked' = NoLibrary
    /\ pending' = [pending EXCEPT ![looked] = @ + 1] /\ finder' = TRUE
    /\ raced' = IF lib[looked] = "absent" THEN raced ELSE raced \cup {looked}
    /\ UNCHANGED <<slots, leaked, api, byMain, todo, fired, instrumented,
                   imports, changes, attaches>>

Attached ==
    /\ api = "imports" /\ todo = {} /\ looked = NoLibrary
    /\ api' = "attached"
    /\ UNCHANGED <<slots, leaked, importRest, changes, attaches>>

\* detach(): cancel_all; the instrumentation of the modules is undone.
Cancel ==
    /\ api = "attached" /\ api' = "cancelled" /\ byMain' \in BOOLEAN
    /\ pending' = [m \in Libraries |-> 0] /\ finder' = FALSE
    /\ instrumented' = {} /\ raced' = {}
    /\ UNCHANGED <<slots, leaked, todo, looked, fired, imports, changes,
                   attaches>>

\* remove_hooks undoes only our own handler, SIGTERM's only in the main thread.
UndoneBy(s) ==
    /\ previous[s] # "none" /\ real[s].now = "ours"
    /\ byMain \/ s = "excepthook"

RemoveHooks ==
    /\ api = "cancelled" /\ api' = "detached"
    /\ real' = [s \in Slots |-> IF UndoneBy(s)
                                THEN [real[s] EXCEPT !.now = previous[s]]
                                ELSE real[s]]
    /\ previous' = [s \in Slots |-> "none"]
    /\ leaked' = leaked \cup {s \in Slots : real'[s].now = "ours"}
    /\ UNCHANGED <<plain, current, importRest, changes, attaches>>

-----------------------------------------------------------------------------
(* An import, in any thread; the interpreter runs one per library at a time. *)

ImportRest == <<slots, leaked, api, byMain, todo, looked, raced, changes,
                attaches>>

\* sys.modules lacks it; _Finder.find_spec wraps the loader.
FindSpec(m) ==
    /\ lib[m] = "absent" /\ lib' = [lib EXCEPT ![m] = "found"]
    /\ wrapped' = IF finder /\ pending[m] > 0 THEN wrapped \cup {m}
                  ELSE wrapped
    /\ UNCHANGED <<ImportRest, registry>>

ExecModule(m) ==
    /\ lib[m] = "found" /\ lib' = [lib EXCEPT ![m] = "executing"]
    /\ UNCHANGED <<ImportRest, wrapped, registry>>

StillWanted(m) == finder /\ \E other \in Libraries \ {m} : pending[other] > 0

\* _fire takes the callbacks; the finder goes with the last of them.
Fire(m) ==
    /\ lib[m] = "executing"
    /\ lib' = [lib EXCEPT ![m] = IF m \in wrapped THEN "fired" ELSE "loaded"]
    /\ IF m \in wrapped
       THEN /\ fired' = [fired EXCEPT ![m] = pending[m]]
            /\ pending' = [pending EXCEPT ![m] = 0]
            /\ finder' = StillWanted(m)
       ELSE UNCHANGED <<fired, pending, finder>>
    /\ UNCHANGED <<ImportRest, wrapped, instrumented>>

RunCallbacks(m) ==
    /\ lib[m] = "fired" /\ lib' = [lib EXCEPT ![m] = "loaded"]
    /\ instrumented' = IF fired[m] > 0 THEN instrumented \cup {m}
                       ELSE instrumented
    /\ fired' = [fired EXCEPT ![m] = 0]
    /\ UNCHANGED <<ImportRest, wrapped, pending, finder>>

-----------------------------------------------------------------------------

HooksNext ==
    \/ \E s \in Slots : SetHandler(s) \/ RestoreHandler(s)
    \/ Attach \/ HookExceptions \/ HookSignal \/ Remember
    \/ Register \/ Attached \/ Cancel \/ RemoveHooks
    \/ \E m \in Libraries : \/ WhenImported(m) \/ FindSpec(m) \/ ExecModule(m)
                            \/ Fire(m) \/ RunCallbacks(m)

HooksSpec == HooksInit /\ [][HooksNext]_hookVars

-----------------------------------------------------------------------------
(* Properties.                                                             *)

Unchanged(s) == Outcome(s, real[s], previous[s]) = Outcome(s, plain[s], "none")

\* SIGTERM does to the program what it would do without the sidecar
\* (tests/test_shutdown.py: "attach() must not change the program's SIGTERM
\* semantics").
SigtermUnchanged == api # "remember" => Unchanged("sigterm")

\* Signals and uncaught exceptions run the program's own handlers, in their
\* order, and end it, exactly when they would without the sidecar, through any
\* sequence of handlers set and put back, attach and detach, unless ours was
\* left behind: a handler of the program kept it, or another thread than the
\* main one called detach.
HandlersAreTransparent ==
    api # "remember" => \A s \in Slots \ leaked : Unchanged(s)

\* Once attach has returned, a library it waits for will be or has been
\* instrumented, whatever the other threads import meanwhile, unless its
\* import was under way when it was registered.
LibrariesAreInstrumented ==
    api = "attached" => \A m \in Libraries \ raced :
        /\ lib[m] = "absent" => finder /\ pending[m] > 0
        /\ lib[m] = "loaded" => m \in instrumented

\* The sidecar sees what it should of the program and changes nothing of it.
SidecarIsTransparent == HandlersAreTransparent /\ LibrariesAreInstrumented
=============================================================================
