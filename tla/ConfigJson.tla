------------------------------ MODULE ConfigJson ------------------------------
(***************************************************************************)
(* The conversion of a strategy's configuration schema to JSON, from which *)
(* a user interface builds the form.  A JSON object is a function from the *)
(* names of its members; a member whose value is json::undefined is not    *)
(* there.                                                                  *)
(***************************************************************************)
EXTENDS ConfigSchema, Integers, Sequences

CONSTANTS
    MaxDepth,       \* bound on the depth of a form
    Controls,       \* for each depth the controls that occur, which hold those of the depth before
    MaxControls     \* bound on the controls of a schema

VARIABLE schema     \* StrategyConfigSchema::controls

\* Some members of an object.
Part(object, members) == [f \in members |-> object[f]]

\* The members of an object that are not skipped (skip_if_default).
NotDefault(val, def) == {f \in DOMAIN def : val[f] # def[f]}

\* External: pairs made an object by the JSON library.  Their order is lost, and one of the
\* pairs of a key remains.
AsObject(pairs) ==
    LET all == {pairs[k] : k \in DOMAIN pairs}
    IN  [key \in {p[1] : p \in all} |-> CHOOSE v \in {p[2] : p \in all} : <<key, v>> \in all]

VisibilityToJson(rules) ==
    LET values == AsObject(rules)
    IN  [v \in DOMAIN values |->
            IF values[v] = <<>> THEN [true |-> TRUE] ELSE [list |-> values[v]]]

OptionsToJson(opts) ==
    [f \in NotDefault(opts, DefaultOpts) |->
        IF f = "read_only" THEN opts[f] ELSE VisibilityToJson(opts[f])]

\* Mutant: hide_seconds is left out like the other members.
TimeRangeSkipping(range) == Part(range, NotDefault(range, DefaultTimeRange))

\* range_to_json of numbers, dates and times: hide_seconds is always there.
NumberRangeToJson(range) == Part(range, NotDefault(range, DefaultNumberRange))
DateRangeToJson(range) == Part(range, NotDefault(range, DefaultDateRange))
TimeRangeToJson(range) ==
    Part(range, NotDefault(range, DefaultTimeRange) \cup {"hide_seconds"})

RangeToJson(c) ==
    CASE c.class \in {"number", "slider"} -> NumberRangeToJson(c.range)
      [] c.class = "date" -> DateRangeToJson(c.range)
      [] c.class = "time" -> TimeRangeToJson(c.range)

DefaultRange(class) ==
    CASE class \in {"number", "slider"} -> DefaultNumberRange
      [] class = "date" -> DefaultDateRange
      [] class = "time" -> DefaultTimeRange

\* What control_to_json takes over from a control of each class: not whether a section is
\* shown, and a compound has no name.
Members ==
    [text |-> {"name"}, text_input |-> {"name", "default", "size"},
     text_area |-> {"name", "default", "size", "rows"},
     number |-> {"name", "default"}, slider |-> {"name", "default"},
     checkbox |-> {"name", "default"}, select |-> {"name", "default", "choices"},
     date |-> {"name", "default"}, time |-> {"name", "default"}, select_tz |-> {"name"},
     group |-> {"name"}, section |-> {"name"}, compound |-> {}]

Ranged == {"number", "slider", "date", "time"}
Containers == {"group", "section", "compound"}

\* A time is written as a date.
ClassOf(c) == IF c.class = "time" THEN "date" ELSE c.class

\* skip_if_default
SkipIfDefault(member, val, def) == IF val = def THEN {} ELSE {member}

\* control_to_json; inner is what it makes of the control's controls.
ControlToJson(c, inner) ==
    LET written == {"class"} \cup Members[c.class]
                   \cup SkipIfDefault("options", c.opts, DefaultOpts)
                   \cup (IF c.class \notin Ranged THEN {}
                         ELSE SkipIfDefault("range", c.range, DefaultRange(c.class)))
                   \cup (IF c.class \in Containers THEN {"controls"} ELSE {})
    IN  [f \in written |->
            CASE f = "class" -> ClassOf(c)
              [] f = "options" -> OptionsToJson(c.opts)
              [] f = "range" -> RangeToJson(c)
              [] f = "controls" -> inner
              [] f = "choices" -> AsObject(c.choices)
              [] OTHER -> c[f]]

\* The SkipTypes of a control's controls.
Skipped(class) == IF class = "compound" THEN {"section", "group"} ELSE {"section"}

\* The controls of some that are not of the given classes (the loop of config_schema_to_json_t).
NotSkipped(controls, classes) ==
    LET kept[k \in 0 .. Len(controls)] ==
            IF k = 0 THEN <<>>
            ELSE IF controls[k].class \in classes THEN kept[k - 1]
            ELSE Append(kept[k - 1], controls[k])
    IN  kept[Len(controls)]

\* What the code does by recursion on a control is a function on the controls of a depth.
Json[n \in 0 .. MaxDepth] ==
    [c \in Controls[n] |->
        ControlToJson(c, IF c.class \notin Containers THEN <<>>
                         ELSE LET kept == NotSkipped(c.controls, Skipped(c.class))
                              IN  [k \in DOMAIN kept |-> Json[n - 1][kept[k]]])]

ConfigSchemaToJson(controls) == [k \in DOMAIN controls |-> Json[MaxDepth][controls[k]]]

-----------------------------------------------------------------------------
\* What the constructors make of each class (config_desc.h).
Fields(class) ==
    {"class", "opts"} \cup Members[class]
    \cup (IF class \in Ranged THEN {"range"} ELSE {})
    \cup (IF class \in Containers THEN {"name", "controls"} ELSE {})
    \cup (IF class = "section" THEN {"shown"} ELSE {})

\* A control holds its controls by value, so that every form has a depth.
ASSUME DepthAssumption ==
    /\ MaxDepth \in Nat
    /\ \A n \in 0 .. MaxDepth : \A c \in Controls[n] :
        c.class \in Containers => n > 0 /\ c.controls \in Seq(Controls[n - 1])

\* Controls are what their constructors make: of their class, with options and a range of its kind.
ASSUME ControlAssumption ==
    \A n \in 0 .. MaxDepth : \A c \in Controls[n] :
        /\ c.class \in DOMAIN Members
        /\ c = Part(c, Fields(c.class))
        /\ c.opts = Options(c.opts.read_only, c.opts.show_if, c.opts.hide_if)
        /\ c.class \in Ranged => c.range = Part(c.range, DOMAIN DefaultRange(c.class))

-----------------------------------------------------------------------------
\* The list of controls a schema is made from.
Declare(c) ==
    /\ Len(schema) < MaxControls
    /\ schema' = Append(schema, c)

\* config_desc_to_json: a strategy is asked for its schema, which it makes anew.
NextStrategy ==
    /\ schema # <<>>
    /\ schema' = <<>>

ConfigInit == schema = <<>>
ConfigNext == NextStrategy \/ \E c \in Controls[MaxDepth] : Declare(c)
ConfigSpec == ConfigInit /\ [][ConfigNext]_schema

-----------------------------------------------------------------------------
(* What a user interface reads back *)

Member(json, member, def) == IF member \in DOMAIN json THEN json[member] ELSE def
Filled(json, def) == [f \in DOMAIN def |-> Member(json, f, def[f])]

ReadRules(json) == [v \in DOMAIN json |-> IF "true" \in DOMAIN json[v] THEN <<>> ELSE json[v].list]
ReadOptions(json) ==
    [f \in DOMAIN DefaultOpts |->
        LET member == Member(json, f, DefaultOpts[f])
        IN  IF f = "read_only" THEN member ELSE ReadRules(member)]

\* A date with hide_seconds can only be a time.
ReadRange(class, json) ==
    CASE class = "date" /\ "hide_seconds" \in DOMAIN json -> Filled(json, DefaultTimeRange)
      [] class = "date" /\ "hide_seconds" \notin DOMAIN json -> Filled(json, DefaultDateRange)
      [] OTHER -> Filled(json, DefaultNumberRange)

\* A control as it is read; inner is what is read of its controls.
ReadControl(json, inner) ==
    [f \in (DOMAIN json \ {"options"}) \cup {"opts"}
           \cup (IF json.class \in Ranged THEN {"range"} ELSE {}) |->
        CASE f = "opts" -> ReadOptions(Member(json, "options", <<>>))
          [] f = "range" -> ReadRange(json.class, Member(json, "range", <<>>))
          [] f = "controls" -> inner
          [] OTHER -> json[f]]

\* What is written of the controls of each depth.
Forms == [n \in 0 .. MaxDepth |-> {Json[n][c] : c \in Controls[n]}]

\* What is read of them.
Read[n \in 0 .. MaxDepth] ==
    [json \in Forms[n] |->
        ReadControl(json, IF "controls" \notin DOMAIN json THEN <<>>
                          ELSE [k \in DOMAIN json.controls |-> Read[n - 1][json.controls[k]]])]

\* A declared control without the order of its choices and rules, and with one of each key.
Unordered(c) ==
    [f \in DOMAIN c |->
        CASE f = "choices" -> AsObject(c.choices)
          [] f = "opts" -> [c.opts EXCEPT !.show_if = AsObject(@), !.hide_if = AsObject(@)]
          [] OTHER -> c[f]]

\* Such a control as far as the form can have it: a time looks like a date, and without a
\* range of its own has that of a date; nobody learns whether a section is shown, nor the name
\* of a compound.
MeantControl(c, inner) ==
    CASE c.class = "time" ->
            [c EXCEPT !.class = "date",
                      !.range = IF @ = DefaultTimeRange THEN DefaultDateRange ELSE @]
      [] c.class \in Containers ->
            [f \in DOMAIN c \ ({"shown"} \cup IF c.class = "compound" THEN {"name"} ELSE {}) |->
                IF f = "controls" THEN inner ELSE c[f]]
      [] OTHER -> c

\* Groups and sections hold no sections, compounds neither those nor groups.
Meant[n \in 0 .. MaxDepth] ==
    [c \in Controls[n] |->
        MeantControl(Unordered(c),
                     IF c.class \notin Containers THEN <<>>
                     ELSE LET fit == NotSkipped(c.controls,
                                            IF c.class # "compound" THEN {"section"}
                                            ELSE {"group", "section"})
                          IN  [k \in DOMAIN fit |-> Meant[n - 1][fit[k]]])]

\* Although everything that equals a default is left out, and controls are left out by
\* their class and place, the form is built as it was declared: in its order, with all its
\* options, ranges and values, at any depth (config_schema_to_json).  Only choices and rules
\* come as objects, without their order and without a second one of the same key.
FormIsAsDeclared ==
    LET json == ConfigSchemaToJson(schema)
    IN  [k \in DOMAIN json |-> Read[MaxDepth][json[k]]]
            = [k \in DOMAIN schema |-> Meant[MaxDepth][schema[k]]]
=============================================================================
