----------------------------- MODULE LazyProofs ------------------------------
(***************************************************************************)
(* Theorems about the lazy names of the package root, for any names, any   *)
(* packages that come and go, and any number of threads that look names up *)
(* or import them all.                                                     *)
(***************************************************************************)
EXTENDS Lazy, TLAPS

Object == Nat \cup {None}

Thread == [st    : {"idle", "missed", "found", "value", "hint", "error"},
           name  : Names \cup {None},
           left  : {None} \cup SUBSET Names,
           value : Object]

(* What is bound is what the module that was executed first defines.       *)
NamespaceInv ==
    /\ modules \in [Names -> Object]
    /\ root \in [Names -> Object]
    /\ executed \in Nat
    /\ \A n \in Names : root[n] # None => root[n] = modules[n]

(* __all__ is out of date only for packages that have changed.             *)
AdvertisedInv ==
    /\ env \in [Packages -> PackageState]
    /\ advertised \in {None} \cup SUBSET Names
    /\ advertised # None =>
          \A n \in Names : PackageOf[n] \notin changed =>
              (n \in advertised <=> env[PackageOf[n]] # "missing")

(* A lookup x holds the object of its name, if it has one.                 *)
LookupInv(x) ==
    /\ x.st # "idle" => x.name \in Names
    /\ x.st = "found" => x.value # None /\ x.value = modules[x.name]
    /\ x.st = "value" => x.value # None /\ x.value = root[x.name]

(* A star import x has bound every name that it has left behind.           *)
StarInv(x) ==
    x.left # None =>
        /\ advertised # None /\ x.left \subseteq advertised
        /\ x.name \in advertised
        /\ \A n \in advertised \ x.left : n # x.name => root[n] # None
        /\ x.st = "hint" => PackageOf[x.name] \in changed

LazyInv ==
    /\ NamespaceInv
    /\ AdvertisedInv
    /\ thread \in [Threads -> Thread]
    /\ \A t \in Threads : LookupInv(thread[t]) /\ StarInv(thread[t])

-----------------------------------------------------------------------------
(* The invariant holds initially.                                          *)
LEMMA InitLazyInv == LazyInit => LazyInv
  <1> SUFFICES ASSUME LazyInit PROVE LazyInv
    OBVIOUS
  <1>1. NamespaceInv /\ AdvertisedInv
    BY DEF LazyInit, NamespaceInv, AdvertisedInv, Object
  <1> DEFINE x == Lookup("idle", None, None)
  <1>2. x \in Thread /\ x.st = "idle" /\ x.left = None
    BY DEF Lookup, Thread, Object
  <1>3. \A t \in Threads : thread[t] = x
    BY DEF LazyInit
  <1>4. thread \in [Threads -> Thread]
    BY <1>2 DEF LazyInit
  <1> HIDE DEF x
  <1> QED
    BY <1>1, <1>2, <1>3, <1>4 DEF LazyInv, LookupInv, StarInv

(* Lookups that are under way are not disturbed as long as nothing that    *)
(* they go by is lost.                                                     *)
LEMMA LookupKeeps ==
  ASSUME NEW x,
         LookupInv(x), StarInv(x),
         \A n \in Names : modules[n] # None => modules'[n] = modules[n],
         \A n \in Names : root[n] # None => root'[n] = root[n],
         advertised \in {None} \cup SUBSET Names,
         advertised # None => advertised' = advertised,
         changed \subseteq changed'
  PROVE  LookupInv(x)' /\ StarInv(x)'
  <1>1. LookupInv(x)'
    BY DEF LookupInv
  <1>2. StarInv(x)'
    <2> SUFFICES ASSUME x.left # None
                 PROVE  /\ advertised' # None /\ x.left \subseteq advertised'
                        /\ x.name \in advertised'
                        /\ \A n \in advertised' \ x.left : n # x.name => root'[n] # None
                        /\ x.st = "hint" => PackageOf[x.name] \in changed'
      BY DEF StarInv
    <2>1. advertised' = advertised /\ advertised \subseteq Names
      BY DEF StarInv
    <2> QED
      BY <2>1 DEF StarInv
  <1> QED
    BY <1>1, <1>2

(* The root of the package is imported: it lists what is there.            *)
LEMMA ImportRootInv ==
  ASSUME LazyInv, ImportRoot
  PROVE  LazyInv'
  <1>1. /\ advertised = None /\ advertised' = Available
        /\ UNCHANGED <<env, imported, modules, root, thread, executed, changed>>
    BY DEF ImportRoot
  <1>2. Available \in SUBSET Names
    BY DEF Available
  <1>3. AdvertisedInv'
    BY <1>1, <1>2 DEF LazyInv, AdvertisedInv, Available
  <1>4. NamespaceInv'
    BY <1>1 DEF LazyInv, NamespaceInv
  <1>5. ASSUME NEW t \in Threads PROVE LookupInv(thread[t])' /\ StarInv(thread[t])'
    <2>1. LookupInv(thread[t]) /\ thread[t].left = None
      BY <1>1 DEF LazyInv, StarInv
    <2> QED
      BY <1>1, <2>1 DEF LookupInv, StarInv
  <1> QED
    BY <1>1, <1>3, <1>4, <1>5 DEF LazyInv

(* A package that changes after the root was imported is on record.        *)
LEMMA PackageBecomesInv ==
  ASSUME LazyInv, NEW p \in Packages, NEW state \in PackageState, PackageBecomes(p, state)
  PROVE  LazyInv'
  <1>1. /\ env' = [env EXCEPT ![p] = state]
        /\ changed' = IF advertised = None THEN {} ELSE changed \cup {p}
        /\ UNCHANGED <<imported, modules, root, advertised, thread, executed>>
    BY DEF PackageBecomes
  <1>2. NamespaceInv'
    BY <1>1 DEF LazyInv, NamespaceInv
  <1>3. AdvertisedInv'
    <2>1. env \in [Packages -> PackageState] /\ env' \in [Packages -> PackageState]
      BY <1>1 DEF LazyInv, AdvertisedInv
    <2>2. \A n \in Names : PackageOf[n] \in Packages
      BY DEF Packages
    <2>3. \A n \in Names : PackageOf[n] # p => env'[PackageOf[n]] = env[PackageOf[n]]
      BY <1>1, <2>1, <2>2
    <2> QED
      BY <1>1, <2>1, <2>3 DEF LazyInv, AdvertisedInv
  <1>4. ASSUME NEW t \in Threads PROVE LookupInv(thread[t])' /\ StarInv(thread[t])'
    BY <1>1 DEF LazyInv, LookupInv, StarInv
  <1> QED
    BY <1>1, <1>2, <1>3, <1>4 DEF LazyInv

(* A step of thread t alone, to x.                                         *)
LEMMA LookupStep ==
  ASSUME LazyInv, NEW t \in Threads, NEW x \in Thread, LookupInv(x), StarInv(x),
         thread' = [thread EXCEPT ![t] = x],
         UNCHANGED <<env, modules, root, advertised, executed, changed>>
  PROVE  LazyInv'
  <1>1. NamespaceInv' /\ AdvertisedInv'
    BY DEF LazyInv, NamespaceInv, AdvertisedInv
  <1>2. /\ thread' \in [Threads -> Thread] /\ thread'[t] = x
        /\ \A u \in Threads : u # t => thread'[u] = thread[u]
    BY DEF LazyInv
  <1>3. ASSUME NEW u \in Threads PROVE LookupInv(thread[u])' /\ StarInv(thread[u])'
    <2>1. LookupInv(thread'[u]) /\ StarInv(thread'[u])
      BY <1>2 DEF LazyInv
    <2> QED
      BY <2>1 DEF LookupInv, StarInv
  <1> QED
    BY <1>1, <1>2, <1>3 DEF LazyInv

(* What a lookup of n becomes: a value, or a call of __getattr__.          *)
LEMMA GetAttrFacts ==
  ASSUME LazyInv, NEW t \in Threads, NEW n \in Names,
         NEW left \in {None} \cup SUBSET Names, GetAttr(t, n, left)
  PROVE  \E x \in Thread :
            /\ thread' = [thread EXCEPT ![t] = x]
            /\ LookupInv(x)
            /\ x.st \in {"missed", "value"} /\ x.name = n /\ x.left = left
  <1>1. root[n] \in Object
    BY DEF LazyInv, NamespaceInv
  <1>2. CASE root[n] = None
    <2> DEFINE x == Lookup("missed", n, left)
    <2>1. thread' = [thread EXCEPT ![t] = x]
      BY <1>2 DEF GetAttr
    <2>2. x \in Thread /\ x.st = "missed" /\ x.name = n /\ x.left = left
      BY DEF Lookup, Thread, Object
    <2> HIDE DEF x
    <2>3. LookupInv(x)
      BY <2>2 DEF LookupInv
    <2> QED
      BY <2>1, <2>2, <2>3
  <1>3. CASE root[n] # None
    <2> DEFINE y == Lookup("value", n, left)
    <2>1. thread' = [thread EXCEPT ![t] = [y EXCEPT !.value = root[n]]]
      BY <1>3 DEF GetAttr
    <2>2. y \in Thread /\ y.st = "value" /\ y.name = n /\ y.left = left
      BY DEF Lookup, Thread, Object
    <2> HIDE DEF y
    <2> DEFINE x == [y EXCEPT !.value = root[n]]
    <2>3. /\ x \in Thread /\ x.st = "value" /\ x.name = n /\ x.left = left
          /\ x.value = root[n]
      BY <1>1, <2>2 DEF Thread
    <2> HIDE DEF x
    <2>4. LookupInv(x)
      BY <1>3, <2>3 DEF LookupInv
    <2>5. thread' = [thread EXCEPT ![t] = x]
      BY <2>1 DEF x
    <2> QED
      BY <2>3, <2>4, <2>5
  <1> QED
    BY <1>2, <1>3

(* A thread asks the root for a name.                                      *)
LEMMA AccessInv ==
  ASSUME LazyInv, NEW t \in Threads, NEW n \in Names, Access(t, n)
  PROVE  LazyInv'
  <1>1. PICK x \in Thread : /\ thread' = [thread EXCEPT ![t] = x]
                            /\ LookupInv(x) /\ x.left = None
    BY GetAttrFacts DEF Access
  <1>2. StarInv(x)
    BY <1>1 DEF StarInv
  <1> QED
    BY <1>1, <1>2, LookupStep DEF Access

(* The name that a star import leaves behind has its value.                *)
LEMMA StarImportInv ==
  ASSUME LazyInv, NEW t \in Threads, NEW n \in Names, StarImport(t, n)
  PROVE  LazyInv'
  <1>1. /\ advertised # None /\ advertised \subseteq Names
        /\ thread[t] \in Thread /\ LookupInv(thread[t]) /\ StarInv(thread[t])
    BY DEF StarImport, Idle, LazyInv, AdvertisedInv
  <1>2. PICK left : /\ left = IF thread[t].st = "value" /\ thread[t].left # None
                              THEN thread[t].left ELSE advertised
                    /\ n \in left /\ GetAttr(t, n, left \ {n})
    BY DEF StarImport
  <1>3. left \subseteq advertised
    BY <1>1, <1>2 DEF StarInv
  <1>4. \A m \in advertised \ left : root[m] # None
    BY <1>1, <1>2 DEF StarInv, LookupInv
  <1>5. left \ {n} \in {None} \cup SUBSET Names
    BY <1>1, <1>3
  <1>6. PICK x \in Thread : /\ thread' = [thread EXCEPT ![t] = x]
                            /\ LookupInv(x)
                            /\ x.st \in {"missed", "value"}
                            /\ x.name = n /\ x.left = left \ {n}
    BY <1>2, <1>5, GetAttrFacts
  <1>7. StarInv(x)
    BY <1>1, <1>2, <1>3, <1>4, <1>6 DEF StarInv
  <1> QED
    BY <1>6, <1>7, LookupStep DEF StarImport

(* The first import of a module defines the object; a hint is given only   *)
(* for a package that is missing.                                          *)
LEMMA ImportModuleInv ==
  ASSUME LazyInv, NEW t \in Threads, ImportModule(t)
  PROVE  LazyInv'
  <1>1. PICK n : n = thread[t].name
    OBVIOUS
  <1>2. /\ thread[t] \in Thread /\ LookupInv(thread[t]) /\ StarInv(thread[t])
        /\ thread \in [Threads -> Thread]
        /\ thread[t].st = "missed" /\ n \in Names
        /\ UNCHANGED <<env, root, advertised, changed>>
    BY <1>1 DEF LazyInv, LookupInv, ImportModule
  <1>3. /\ modules \in [Names -> Object] /\ executed \in Nat
        /\ advertised \in {None} \cup SUBSET Names /\ None \notin Nat
    BY LazyAssumption DEF LazyInv, NamespaceInv, AdvertisedInv
  <1>4. CASE modules[n] # None
    <2> DEFINE x == [thread[t] EXCEPT !.st = "found", !.value = modules[n]]
    <2>1. thread' = [thread EXCEPT ![t] = x] /\ UNCHANGED <<modules, executed>>
      BY <1>1, <1>2, <1>4 DEF ImportModule
    <2>2. /\ x \in Thread /\ x.st = "found" /\ x.value = modules[n]
          /\ x.name = n /\ x.left = thread[t].left
      BY <1>1, <1>2, <1>3 DEF Thread
    <2> HIDE DEF x
    <2>3. LookupInv(x)
      BY <1>2, <1>4, <2>2 DEF LookupInv
    <2>4. StarInv(x)
      BY <1>1, <1>2, <2>2 DEF StarInv
    <2> QED
      BY <1>2, <2>1, <2>2, <2>3, <2>4, LookupStep
  <1>5. CASE modules[n] = None /\ (PackageOf[n] \in imported \/ env[PackageOf[n]] = "installed")
    <2>1. PICK v \in Nat : v = executed + 1
      BY <1>3
    <2> DEFINE x == [thread[t] EXCEPT !.st = "found", !.value = v]
    <2>2. /\ thread' = [thread EXCEPT ![t] = x]
          /\ modules' = [modules EXCEPT ![n] = v] /\ executed' = v
      BY <1>1, <1>2, <1>5, <2>1 DEF ImportModule
    <2>3. /\ x \in Thread /\ x.st = "found" /\ x.value = v
          /\ x.name = n /\ x.left = thread[t].left
      BY <1>1, <1>2, <2>1 DEF Thread, Object
    <2> HIDE DEF x
    <2>4. /\ modules' \in [Names -> Object] /\ modules'[n] = v /\ v # None
          /\ \A m \in Names : m # n => modules'[m] = modules[m]
      BY <1>2, <1>3, <2>1, <2>2 DEF Object
    <2>5. NamespaceInv'
      BY <1>2, <1>5, <2>1, <2>2, <2>4 DEF LazyInv, NamespaceInv
    <2>6. AdvertisedInv'
      BY <1>2 DEF LazyInv, AdvertisedInv
    <2>7. /\ thread' \in [Threads -> Thread] /\ thread'[t] = x
          /\ \A u \in Threads : u # t => thread'[u] = thread[u]
      BY <1>2, <2>2, <2>3
    <2>8. ASSUME NEW u \in Threads PROVE LookupInv(thread[u])' /\ StarInv(thread[u])'
      <3>1. CASE u = t
        BY <1>1, <1>2, <2>3, <2>4, <2>7, <3>1 DEF LookupInv, StarInv
      <3>2. CASE u # t
        <4>1. PICK y : y = thread[u]
          OBVIOUS
        <4>2. LookupInv(y)' /\ StarInv(y)'
          <5>1. LookupInv(y) /\ StarInv(y)
            BY <4>1 DEF LazyInv
          <5>2. \A m \in Names : modules[m] # None => modules'[m] = modules[m]
            BY <1>5, <2>4
          <5> QED
            BY <1>2, <1>3, <5>1, <5>2, LookupKeeps
        <4> QED
          BY <2>7, <3>2, <4>1, <4>2 DEF LookupInv, StarInv
      <3> QED
        BY <3>1, <3>2
    <2> QED
      BY <2>5, <2>6, <2>7, <2>8 DEF LazyInv
  <1>6. CASE modules[n] = None /\ ~(PackageOf[n] \in imported \/ env[PackageOf[n]] = "installed")
    <2>1. PICK st \in {"hint", "error"} :
             st = IF env[PackageOf[n]] = "missing" THEN "hint" ELSE "error"
      OBVIOUS
    <2> DEFINE x == [thread[t] EXCEPT !.st = st]
    <2>2. thread' = [thread EXCEPT ![t] = x] /\ UNCHANGED <<modules, executed>>
      BY <1>1, <1>2, <1>6, <2>1 DEF ImportModule, Failure
    <2>3. x \in Thread /\ x.st = st /\ x.name = n /\ x.left = thread[t].left
      BY <1>1, <1>2, <2>1 DEF Thread
    <2> HIDE DEF x
    <2>4. LookupInv(x)
      BY <1>2, <2>3 DEF LookupInv
    <2>5. n \in advertised /\ advertised # None /\ st = "hint" => PackageOf[n] \in changed
      BY <1>2, <2>1 DEF LazyInv, AdvertisedInv
    <2>6. StarInv(x)
      BY <1>1, <1>2, <2>3, <2>5 DEF StarInv
    <2> QED
      BY <1>2, <2>2, <2>3, <2>4, <2>6, LookupStep
  <1> QED
    BY <1>4, <1>5, <1>6

(* A second thread that binds the name binds the same object.              *)
LEMMA BindInv ==
  ASSUME LazyInv, NEW t \in Threads, Bind(t)
  PROVE  LazyInv'
  <1>1. PICK n : n = thread[t].name
    OBVIOUS
  <1>2. PICK v : v = thread[t].value
    OBVIOUS
  <1> DEFINE x == [thread[t] EXCEPT !.st = "value"]
  <1>3. /\ thread[t].st = "found" /\ thread[t] \in Thread /\ n \in Names
        /\ LookupInv(thread[t]) /\ StarInv(thread[t])
        /\ v # None /\ v = modules[n] /\ v \in Object
        /\ thread \in [Threads -> Thread]
    BY <1>1, <1>2 DEF Bind, LazyInv, LookupInv, Thread
  <1>4. /\ root' = [root EXCEPT ![n] = v] /\ thread' = [thread EXCEPT ![t] = x]
        /\ UNCHANGED <<env, modules, advertised, executed, changed>>
    BY <1>1, <1>2 DEF Bind
  <1>5. /\ x \in Thread /\ x.st = "value" /\ x.value = v
        /\ x.name = n /\ x.left = thread[t].left
    BY <1>1, <1>2, <1>3 DEF Thread
  <1> HIDE DEF x
  <1>6. /\ root \in [Names -> Object] /\ root' \in [Names -> Object] /\ root'[n] = v
        /\ \A m \in Names : m # n => root'[m] = root[m]
    BY <1>3, <1>4 DEF LazyInv, NamespaceInv
  <1>7. \A m \in Names : root[m] # None => root'[m] = root[m]
    BY <1>3, <1>6 DEF LazyInv, NamespaceInv
  <1>8. NamespaceInv'
    BY <1>3, <1>4, <1>6 DEF LazyInv, NamespaceInv
  <1>9. AdvertisedInv' /\ advertised \in {None} \cup SUBSET Names
    BY <1>4 DEF LazyInv, AdvertisedInv
  <1>10. /\ thread' \in [Threads -> Thread] /\ thread'[t] = x
         /\ \A u \in Threads : u # t => thread'[u] = thread[u]
    BY <1>3, <1>4, <1>5
  <1>11. ASSUME NEW u \in Threads PROVE LookupInv(thread[u])' /\ StarInv(thread[u])'
    <2>1. CASE u = t
      <3>1. LookupInv(thread[u])'
        BY <1>3, <1>5, <1>6, <1>10, <2>1 DEF LookupInv
      <3>2. StarInv(thread[u])'
        BY <1>1, <1>3, <1>4, <1>5, <1>7, <1>9, <1>10, <2>1 DEF StarInv
      <3> QED
        BY <3>1, <3>2
    <2>2. CASE u # t
      <3>1. PICK y : y = thread[u]
        OBVIOUS
      <3>2. LookupInv(y) /\ StarInv(y)
        BY <3>1 DEF LazyInv
      <3>3. LookupInv(y)' /\ StarInv(y)'
        BY <1>4, <1>7, <1>9, <3>2, LookupKeeps
      <3> QED
        BY <1>10, <2>2, <3>1, <3>3 DEF LookupInv, StarInv
    <2> QED
      BY <2>1, <2>2
  <1> QED
    BY <1>8, <1>9, <1>10, <1>11 DEF LazyInv

(* Every step keeps the invariant.                                         *)
LEMMA NextLazyInv == LazyInv /\ [LazyNext]_lazyVars => LazyInv'
  <1> SUFFICES ASSUME LazyInv, [LazyNext]_lazyVars PROVE LazyInv'
    OBVIOUS
  <1>1. ASSUME NEW t \in Threads,
               \/ \E n \in Names : Access(t, n) \/ StarImport(t, n)
               \/ ImportModule(t) \/ Bind(t)
        PROVE  LazyInv'
    BY <1>1, AccessInv, StarImportInv, ImportModuleInv, BindInv
  <1>2. CASE UNCHANGED lazyVars
    <2>1. UNCHANGED <<env, imported, modules, root, advertised, thread, executed, changed>>
      BY <1>2 DEF lazyVars
    <2> QED
      BY <2>1 DEF LazyInv, NamespaceInv, AdvertisedInv, LookupInv, StarInv
  <1> QED
    BY <1>1, <1>2, ImportRootInv, PackageBecomesInv DEF LazyNext

(* LazyInv is an invariant of the lookups.                                 *)
THEOREM LazyInvariant == LazySpec => []LazyInv
  BY InitLazyInv, NextLazyInv, PTL DEF LazySpec

-----------------------------------------------------------------------------
(* What importers may rely on.                                             *)

(* Every lookup that returns, in whichever thread, returns the one object  *)
(* that is bound, the one its module defines; packages may change, and     *)
(* lookups of the same name overtake each other.                           *)
THEOREM LookupsReturnOneObject == LazySpec => []OneObjectPerName
  <1>1. LazyInv => OneObjectPerName
    BY DEF LazyInv, NamespaceInv, LookupInv, OneObjectPerName
  <1> QED
    BY <1>1, LazyInvariant, PTL

(* The snapshot in __all__ misleads a star import only about packages that *)
(* have changed since.                                                     *)
THEOREM SnapshotServesStarImport == LazySpec => []StarImportBringsTheUsable
  <1>1. ASSUME LazyInv PROVE StarImportBringsTheUsable
    <2> SUFFICES ASSUME NEW t \in Threads, thread[t].left # None
                 PROVE  /\ thread[t].st = "hint" => PackageOf[thread[t].name] \in changed
                        /\ thread[t].st = "value" /\ thread[t].left = {} =>
                              \A n \in Names :
                                 env[PackageOf[n]] = "installed" /\ PackageOf[n] \notin changed
                                 => root[n] # None
      BY DEF StarImportBringsTheUsable
    <2>1. StarInv(thread[t]) /\ LookupInv(thread[t])
      BY <1>1 DEF LazyInv
    <2>2. ASSUME thread[t].st = "value", thread[t].left = {},
                 NEW n \in Names, env[PackageOf[n]] = "installed", PackageOf[n] \notin changed
          PROVE  root[n] # None
      <3>1. n \in advertised
        BY <1>1, <2>1, <2>2 DEF LazyInv, AdvertisedInv, StarInv
      <3> QED
        BY <2>1, <2>2, <3>1 DEF StarInv, LookupInv
    <2> QED
      BY <2>1, <2>2 DEF StarInv
  <1> QED
    BY <1>1, LazyInvariant, PTL
=============================================================================
