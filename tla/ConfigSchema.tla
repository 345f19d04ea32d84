----------------------------- MODULE ConfigSchema -----------------------------
(***************************************************************************)
(* What a strategy declares as its configuration: controls of a form, some *)
(* of which hold others.  The fields have the names of their JSON members. *)
(* Texts, numbers and times are tokens.                                    *)
(***************************************************************************)

\* Rules: a sequence of pairs of a variable and the values with which the control is shown (or
\* hidden), none for any value.
Options(read_only, show_if, hide_if) ==
    [read_only |-> read_only, show_if |-> show_if, hide_if |-> hide_if]
DefaultOpts == Options(FALSE, <<>>, <<>>)

NumberRange(min, max, step, expand_min, expand_max, log_scale) ==
    [min |-> min, max |-> max, step |-> step, expand_min |-> expand_min,
     expand_max |-> expand_max, log_scale |-> log_scale]
DefaultNumberRange == NumberRange("lowest", "highest", "0", FALSE, FALSE, FALSE)

DateRange(min, max) == [min |-> min, max |-> max]
DefaultDateRange == DateRange("0000-01-01", "9999-12-31")

TimeRange(min, max, hide_seconds) == [min |-> min, max |-> max, hide_seconds |-> hide_seconds]
DefaultTimeRange == TimeRange("00:00:00", "23:59:59", FALSE)

Text(name, opts) == [class |-> "text", name |-> name, opts |-> opts]

TextInput(name, default, size, opts) ==
    [class |-> "text_input", name |-> name, default |-> default, size |-> size, opts |-> opts]

TextArea(name, rows, default, size, opts) ==
    [class |-> "text_area", name |-> name, rows |-> rows, default |-> default, size |-> size,
     opts |-> opts]

Number(name, default, range, opts) ==
    [class |-> "number", name |-> name, default |-> default, range |-> range, opts |-> opts]
Slider(name, default, range, opts) == [Number(name, default, range, opts) EXCEPT !.class = "slider"]

CheckBox(name, default, opts) ==
    [class |-> "checkbox", name |-> name, default |-> default, opts |-> opts]

\* Choices: a sequence of pairs of a value and its text.
Select(name, choices, default, opts) ==
    [class |-> "select", name |-> name, choices |-> choices, default |-> default, opts |-> opts]

Date(name, default, range, opts) ==
    [class |-> "date", name |-> name, default |-> default, range |-> range, opts |-> opts]
Time(name, default, range, opts) == [Date(name, default, range, opts) EXCEPT !.class = "time"]

TimeZoneSelect(name, opts) == [class |-> "select_tz", name |-> name, opts |-> opts]

Group(name, controls, opts) ==
    [class |-> "group", name |-> name, controls |-> controls, opts |-> opts]
Compound(controls, opts) == [Group("", controls, opts) EXCEPT !.class = "compound"]
Section(name, controls, shown, opts) ==
    [class |-> "section", name |-> name, controls |-> controls, shown |-> shown, opts |-> opts]
=============================================================================
