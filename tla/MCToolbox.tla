------------------------------- MODULE MCToolbox -------------------------------
(***************************************************************************)
(* Instance of the parts of common/ and trading_ifc/ that stand alone, for *)
(* TLC: the generic scheduler, the atomic future, the function wrapper,    *)
(* the module repository, the schema of a configuration, the order book,   *)
(* and the order of the locks.  They share no state, and each behaviour is *)
(* one of a single part, chosen at first, while the others rest in an      *)
(* initial state; so the states are the sum of those of the parts.         *)
(***************************************************************************)
EXTENDS GenericScheduler, AtomicFuture, FunctionWrapper, ModuleRepository, ConfigJson, LockOrder,
        OrderBook

CONSTANTS
    m1, m2,         \* modules
    n1, n2          \* names of what they make

VARIABLE part       \* the part that runs

\* Both modules have the first name, one of them the second.
SharedName == {<<m1, n1>>, <<m2, n1>>, <<m1, n2>>}

-----------------------------------------------------------------------------
(* Controls: one of each class, with options, ranges and places that matter *)

Plain == DefaultOpts

SomeOptions ==
    {Plain, Options(TRUE, <<>>, <<>>), Options(FALSE, <<<<"b", <<>>>>, <<"a", <<"x">>>>>>, <<>>),
     Options(TRUE, <<>>, <<<<"a", <<"x", "y">>>>, <<"a", <<>>>>>>)}

Numbers ==
    {DefaultNumberRange, NumberRange("0", "highest", "0", FALSE, FALSE, FALSE),
     NumberRange("lowest", "9", "1", TRUE, FALSE, TRUE)}

Dates == {DefaultDateRange, DateRange("2020-01-01", "9999-12-31")}

Times_ ==
    {DefaultTimeRange, TimeRange("00:00:00", "12:00:00", FALSE),
     TimeRange("00:00:00", "23:59:59", TRUE)}

Leaves ==
    {Text("t", o) : o \in SomeOptions}
    \cup {TextInput("t", "", "256", o) : o \in SomeOptions}
    \cup {TextArea("t", "3", "abc", "65536", Plain)}
    \cup {Number("n", "1", r, Plain) : r \in Numbers}
    \cup {Slider("n", "1", r, Plain) : r \in Numbers}
    \cup {CheckBox("c", TRUE, Plain)}
    \cup {Select("s", <<<<"y", "Y">>, <<"x", "X">>, <<"y", "Z">>>>, "x", Plain)}
    \cup {Date("d", "2021-01-01", r, Plain) : r \in Dates}
    \cup {Time("d", "10:00:00", r, Plain) : r \in Times_}
    \cup {TimeZoneSelect("z", o) : o \in SomeOptions}

\* What holds controls, around each of some sequences.
Around(inner) ==
    {Group(name, c, Plain) : name \in {"", "g"}, c \in inner}
    \cup {Compound(c, Options(TRUE, <<>>, <<>>)) : c \in inner}
    \cup {Section("s", c, TRUE, Plain) : c \in inner}

Small == {Text("t", Plain), Time("d", "10:00:00", DefaultTimeRange, Plain)}
Holders == Around({<<>>} \cup {<<c>> : c \in Small})

ControlsOfDepth ==
    [n \in 0 .. 2 |->
        CASE n = 0 -> Small
          [] n = 1 -> Small \cup Holders
          [] n = 2 -> Leaves \cup Around({<<c, d>> : c \in Small, d \in Holders}
                                        \cup {<<d, c>> : c \in Small, d \in Holders})]

-----------------------------------------------------------------------------
Rest(p) ==
    /\ part = p
    /\ UNCHANGED part
    /\ p # "scheduler" => UNCHANGED vars
    /\ p # "future" => UNCHANGED futureVars
    /\ p # "function" => UNCHANGED functionVars
    /\ p # "repository" => UNCHANGED repositoryVars
    /\ p # "config" => UNCHANGED schema
    /\ p # "book" => UNCHANGED bookVars
    /\ p # "locks" => UNCHANGED lockVars

ToolboxInit ==
    /\ part \in {"scheduler", "future", "function", "repository", "config", "book", "locks"}
    /\ Init /\ FunctionInit /\ ConfigInit /\ BookInit /\ LockInit
    /\ FutureInit /\ (part # "future" => ~valid)
    /\ RepositoryInit /\ (part # "repository" => ~shared)

ToolboxNext ==
    \/ Rest("scheduler") /\ Next
    \/ Rest("future") /\ FutureNext
    \/ Rest("function") /\ FunctionNext
    \/ Rest("repository") /\ RepositoryNext
    \/ Rest("config") /\ ConfigNext
    \/ Rest("book") /\ BookNext
    \/ Rest("locks") /\ LockNext

ToolboxSpec ==
    ToolboxInit /\ [][ToolboxNext]_<<part, vars, futureVars, functionVars, repositoryVars, schema, bookVars,
                                   lockVars>>

=============================================================================
