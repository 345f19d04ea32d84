--------------------------- MODULE ModuleRepository ---------------------------
(***************************************************************************)
(* Class ModuleRepository: shared objects with strategies and exchanges,   *)
(* found by name and made by the factories the objects of class Factory    *)
(* register while a module is loaded.  A module is never unloaded, as      *)
(* housekeeping is empty, so the counter of a module's objects is left out.*)
(***************************************************************************)
EXTENDS Integers, Sequences, FiniteSets

CONSTANTS
    Modules,        \* files with an entry point
    Libraries,      \* files that load and have none
    Names,          \* names of strategies (or of exchanges: the two are alike)
    Factories,      \* the pairs of a module and a name it has a factory of
    MaxAdded,       \* bound on the modules added
    MaxObjects      \* bound on the objects made

ASSUME FilesAreOfOneKind == Modules \cap Libraries = {}

VARIABLES
    shared,         \* whether the loader binds Factory::first of all modules to one variable
    modules,        \* _modules, in the order they were added
    opened,         \* files loaded, in the order their factories registered
    objects         \* objects made

repositoryVars == <<shared, modules, opened, objects>>

InSeq(s) == {s[i] : i \in DOMAIN s}

Offers(m, n) == <<m, n>> \in Factories

-----------------------------------------------------------------------------
(* Loading *)

\* dlopen: static objects are constructed when a file is loaded for the first time.
Opened(f) == IF f \in InSeq(opened) THEN opened ELSE Append(opened, f)

\* add_module, of a module that is listed already too.
AddModule(m) ==
    /\ Len(modules) < MaxAdded
    /\ opened' = Opened(m)
    /\ modules' = Append(modules, m)
    /\ UNCHANGED <<shared, objects>>

\* Of a file without an entry point: an exception, and the file stays loaded.
AddLibrary(f) ==
    /\ opened' = Opened(f)
    /\ UNCHANGED <<shared, modules, objects>>

-----------------------------------------------------------------------------
(* Objects *)

\* The factories a module's get_strategies lists, by the module each belongs to.
Inventory(m) == IF shared THEN InSeq(opened) \cap Modules ELSE {m}

Has(m, n) == \E f \in Inventory(m) : Offers(f, n)

\* Inventory::find: what registered last is found first.
Find(m, n) ==
    LET at(f) == CHOOSE i \in DOMAIN opened : opened[i] = f IN
    CHOOSE f \in Inventory(m) :
        /\ Offers(f, n)
        /\ \A g \in Inventory(m) : Offers(g, n) => at(g) <= at(f)

\* Mutant: the modules are searched from the first.
FirstWith(n) ==
    Find(modules[CHOOSE i \in DOMAIN modules :
            /\ Has(modules[i], n)
            /\ \A j \in DOMAIN modules : Has(modules[j], n) => i <= j], n)

\* create_something: the modules are searched from the last.
LastWith(n) ==
    Find(modules[CHOOSE i \in DOMAIN modules :
            /\ Has(modules[i], n)
            /\ \A j \in DOMAIN modules : Has(modules[j], n) => j <= i], n)

\* create_strategy; nothing is made of a name no module has.
Create(n) ==
    /\ Len(objects) < MaxObjects
    /\ \E i \in DOMAIN modules : Has(modules[i], n)
    /\ objects' = Append(objects,
            [name |-> n, of |-> LastWith(n), added |-> Len(modules)])
    /\ UNCHANGED <<shared, modules, opened>>

-----------------------------------------------------------------------------
RepositoryInit ==
    /\ shared \in BOOLEAN
    /\ modules = <<>> /\ opened = <<>> /\ objects = <<>>

RepositoryNext ==
    \/ \E m \in Modules : AddModule(m)
    \/ \E f \in Libraries : AddLibrary(f)
    \/ \E n \in Names : Create(n)

RepositorySpec == RepositoryInit /\ [][RepositoryNext]_repositoryVars

\* Where a module stands among those that were added before an object was made.
Added(o, m) == {i \in 1 .. objects[o].added : modules[i] = m}

\* An object is made by an added module that has the name, and not by one whose last
\* addition precedes the first one of another that has it: of the modules with a name the
\* newest replaces the others, whether or not they share one list of factories.
NewestMakes ==
    \A o \in DOMAIN objects :
        LET maker == objects[o].of
            name == objects[o].name
        IN  /\ Offers(maker, name) /\ Added(o, maker) # {}
            /\ \A m \in Modules :
                    Offers(m, name) /\ Added(o, m) # {} =>
                        \E i \in Added(o, maker), j \in Added(o, m) : j <= i

=============================================================================
