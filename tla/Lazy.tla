-------------------------------- MODULE Lazy ---------------------------------
(***************************************************************************)
(* The public names of probirka that need a third-party package: the       *)
(* PEP 562 hooks of the package root (probirka/__init__.py, _lazy.py).     *)
(*                                                                         *)
(* Threads look names up at any time, and packages are installed, broken   *)
(* and removed meanwhile.  The import of a module is one step (importlib   *)
(* holds a lock); what it defines is identified by the number of the       *)
(* import that executed it.  A package that was imported stays usable.     *)
(***************************************************************************)
EXTENDS Integers

CONSTANTS
    Threads,
    None,
    Names,          \* the keys of LAZY
    PackageOf,      \* the package each of them needs
    MaxImports      \* bound: modules executed

Packages == {PackageOf[n] : n \in Names}

ASSUME LazyAssumption ==
    /\ MaxImports \in Nat
    /\ None \notin Nat
    /\ \A names \in SUBSET Names : names # None

VARIABLES
    env,        \* what find_spec and import find of each package
    imported,   \* packages imported by this process
    modules,    \* what the imported modules define, by name (sys.modules)
    root,       \* names bound in the namespace of the root (setattr)
    advertised, \* the lazy names in __all__; None: the root is not imported
    thread,     \* the lookups
    executed,   \* modules executed so far
    changed     \* packages that changed since the root was imported

lazyVars == <<env, imported, modules, root, advertised, thread, executed, changed>>

(* incomplete: a package of its own is missing; broken: it raises.         *)
PackageState == {"missing", "incomplete", "broken", "installed"}

Lookup(st, name, left) == [st |-> st, name |-> name, left |-> left, value |-> None]

(* left: what a star import has still to look up; None: it is none.        *)
LazyInit ==
    /\ env \in [Packages -> PackageState]
    /\ imported = {}
    /\ modules = [n \in Names |-> None]
    /\ root = [n \in Names |-> None]
    /\ advertised = None
    /\ thread = [t \in Threads |-> Lookup("idle", None, None)]
    /\ executed = 0
    /\ changed = {}

(* Faulty variant: every name is advertised.                               *)
AvailableAll == Names

Available == {n \in Names : env[PackageOf[n]] # "missing"}

(* __all__ is fixed when the root is imported.                             *)
ImportRoot ==
    /\ advertised = None
    /\ advertised' = Available
    /\ UNCHANGED <<env, imported, modules, root, thread, executed, changed>>

PackageBecomes(p, state) ==
    /\ env' = [env EXCEPT ![p] = state]
    /\ changed' = IF advertised = None THEN {} ELSE changed \cup {p}
    /\ UNCHANGED <<imported, modules, root, advertised, thread, executed>>

-----------------------------------------------------------------------------
Idle(t) == advertised # None /\ thread[t].st \in {"idle", "value", "hint", "error"}

(* probirka.name: __getattr__ is called only for what is not bound yet.    *)
GetAttr(t, n, left) ==
    thread' = [thread EXCEPT ![t] =
        IF root[n] = None THEN Lookup("missed", n, left)
                          ELSE [Lookup("value", n, left) EXCEPT !.value = root[n]]]

Access(t, n) ==
    /\ Idle(t)
    /\ GetAttr(t, n, None)
    /\ UNCHANGED <<env, imported, modules, root, advertised, executed, changed>>

(* from probirka import *: the names of __all__ one after the other, until *)
(* one of them raises.                                                     *)
StarImport(t, n) ==
    /\ Idle(t)
    /\ LET left == IF thread[t].st = "value" /\ thread[t].left # None
                   THEN thread[t].left ELSE advertised
       IN  n \in left /\ GetAttr(t, n, left \ {n})
    /\ UNCHANGED <<env, imported, modules, root, advertised, executed, changed>>

(* Only if the package itself is missing, the error says to install it.    *)
Failure(p) == IF env[p] = "missing" THEN "hint" ELSE "error"

(* Faulty variant: the module is executed again.                           *)
ImportModuleAnew(t) ==
    LET n == thread[t].name IN
    /\ thread[t].st = "missed" /\ env[PackageOf[n]] = "installed" /\ executed < MaxImports
    /\ imported' = imported \cup {PackageOf[n]}
    /\ executed' = executed + 1
    /\ modules' = [modules EXCEPT ![n] = executed + 1]
    /\ thread' = [thread EXCEPT ![t].st = "found", ![t].value = executed + 1]
    /\ UNCHANGED <<env, root, advertised, changed>>

(* import_module(): from sys.modules, or by executing it.                  *)
ImportModule(t) ==
    LET n == thread[t].name
        p == PackageOf[n]
    IN  /\ thread[t].st = "missed"
        /\ IF modules[n] # None
           THEN /\ thread' = [thread EXCEPT ![t].st = "found", ![t].value = modules[n]]
                /\ UNCHANGED <<imported, modules, executed>>
           ELSE IF p \in imported \/ env[p] = "installed"
           THEN /\ executed < MaxImports
                /\ imported' = imported \cup {p}
                /\ executed' = executed + 1
                /\ modules' = [modules EXCEPT ![n] = executed + 1]
                /\ thread' = [thread EXCEPT ![t].st = "found", ![t].value = executed + 1]
           ELSE /\ thread' = [thread EXCEPT ![t].st = Failure(p)]
                /\ UNCHANGED <<imported, modules, executed>>
        /\ UNCHANGED <<env, root, advertised, changed>>

(* setattr() on the root: later lookups bypass __getattr__.                *)
Bind(t) ==
    /\ thread[t].st = "found"
    /\ root' = [root EXCEPT ![thread[t].name] = thread[t].value]
    /\ thread' = [thread EXCEPT ![t].st = "value"]
    /\ UNCHANGED <<env, imported, modules, advertised, executed, changed>>

LazyNext ==
    \/ ImportRoot
    \/ \E p \in Packages, state \in PackageState : PackageBecomes(p, state)
    \/ \E t \in Threads :
          \/ \E n \in Names : Access(t, n) \/ StarImport(t, n)
          \/ ImportModule(t) \/ Bind(t)

LazySpec == LazyInit /\ [][LazyNext]_lazyVars

-----------------------------------------------------------------------------
(* Properties.                                                             *)

(* Whoever looks a name up, in whichever thread and whatever becomes of    *)
(* the packages, gets one and the same object, and it stays bound.         *)
OneObjectPerName ==
    \A t \in Threads : thread[t].st = "value" =>
        LET n == thread[t].name IN
        thread[t].value = root[n] /\ root[n] = modules[n]

(* A star import is never told to install a package that was there, or was *)
(* missing, all the time (a broken install keeps its original error), and  *)
(* brings every name whose package has been usable all the time; although  *)
(* __all__ is as old as the root.                                          *)
StarImportBringsTheUsable ==
    \A t \in Threads : thread[t].left # None =>
        /\ thread[t].st = "hint" => PackageOf[thread[t].name] \in changed
        /\ thread[t].st = "value" /\ thread[t].left = {} =>
              \A n \in Names :
                 env[PackageOf[n]] = "installed" /\ PackageOf[n] \notin changed => root[n] # None
=============================================================================
