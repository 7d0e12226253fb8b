----------------------------- MODULE Admission -----------------------------
(***************************************************************************)
(* What a form meets on its way into a table.  The API parses every body   *)
(* with a validator of its own, and the table repeats the rules as types   *)
(* and CHECKs: two statements of one rule, in two languages.  Here are the *)
(* helpers the validators share, as rules for one field, and the column    *)
(* types; the forms and the tables are in the modules that extend this.    *)
(*                                                                         *)
(* A text is the number of its characters once trimmed.  A number is in    *)
(* tenths of the last decimal place of its column, so that 4 rounds to 0.  *)
(* Days and instants are 1 to 3, and now is 2.                             *)
(***************************************************************************)
EXTENDS Integers, FiniteSets

CONSTANTS Unsent,        \* the body has no such field
          Null,          \* it is null; also the null of a column
          Empty,         \* it is the empty string
          Unfit,         \* it is of another type; also what a rule answers to
                         \* a value it refuses, a column to one it cannot hold
          NoDay          \* it is written like a day, 31 February

Moments == 1..3
Now == 2
Most == 100000           \* what a numeric or integer column holds at most
Huge == 10000000         \* a number beyond that, in either unit

-----------------------------------------------------------------------------
(* A rule for a field: what it lets pass as it is, what counts as left out,*)
(* what it answers then, a value a form usually has, and those it may have.*)
(* Some validators tell a field that was not sent from one sent as null.   *)
Rule(accepts, blank, default, usual, tries) ==
    [accepts |-> accepts, blank |-> blank, default |-> default, usual |-> usual,
     tries |-> tries \cup {usual, Unsent, Null, Empty, Unfit}, told |-> FALSE]

Told(rule) == [rule EXCEPT !.told = TRUE]

(* What a validator makes of the value of a field.                         *)
Reads(rule, v) == IF rule.told /\ v = Unsent THEN Unsent
                  ELSE IF v \in rule.blank THEN rule.default
                  ELSE IF v \in rule.accepts THEN v ELSE Unfit

(* requiredString, optionalString: '' is left out, spaces are not.         *)
Text(least, most) == Rule(least..most, {}, Unfit, 9,
                          {0, 1, 2, 7, least, most, most + 1})
RequiredString(most) == Text(1, most)
OptionalString(most) ==
    [RequiredString(most) EXCEPT !.blank = {Unsent, Null, Empty}, !.default = Null]
(* Elsewhere spaces are left out too.                                      *)
OptionalText(most) ==
    [OptionalString(most) EXCEPT !.blank = {Unsent, Null, Empty, 0}]

(* A phone has eight digits at least.                                      *)
Phone == [OptionalText(32) EXCEPT !.accepts = 8..32]

(* A default for a field that is not sent; null is refused.                *)
Left(rule, default) == [rule EXCEPT !.blank = {Unsent}, !.default = default]

(* enumeration, and enumeration(value ?? default).                         *)
Enumeration(among) == Rule(among, {}, Unfit, CHOOSE x \in among : TRUE, among)
EnumerationOr(default, among) == Rule(among, {Unsent, Null}, default, default, among)
OptionalEnum(among) ==
    [Enumeration(among) EXCEPT !.blank = {Unsent, Null, Empty}, !.default = Null]

(* numberValue with bounds, and its optional forms.                        *)
Number(from, to) == Rule(from..to, {}, Unfit, IF to < 100 THEN to ELSE 100,
                         {-Huge, -10, -4, 0, 4, 10, from - 1, from, to, to + 1, Huge})
Optional(rule) == [rule EXCEPT !.blank = {Unsent, Null}, !.default = Null]
OptionalOrEmpty(rule) == [rule EXCEPT !.blank = {Unsent, Null, Empty}, !.default = Null]
AnyNumber == Number(-Huge, Huge)
NonNegative == Number(0, Huge)
Positive == Number(1, Huge)

(* An integer is itself: its column does not round it.                     *)
Whole(from) == Rule(from..Huge, {}, Unfit, 1, {-1, 0, 1, 2, Huge})

(* requireUuid, requiredDate, requiredDateTime, booleanValue, jsonObject.  *)
(* Date.parse takes 31 February for a day of March, and the string is kept;*)
(* a datetime is written anew from what it was parsed to.                  *)
Uuid == Rule({"this", "other"}, {}, Unfit, "this", {"other"})
(* It may name a row that is not active, or a party without the role.      *)
Referenced == [Uuid EXCEPT !.accepts = @ \cup {"retired"}, !.tries = @ \cup {"retired"}]
Day == Rule(Moments \cup {NoDay}, {}, Unfit, 2, Moments \cup {NoDay})
Instant == Rule(Moments, {}, Unfit, 2, Moments)
Flag == Rule(BOOLEAN, {}, Unfit, TRUE, BOOLEAN)
FlagOr(default) == [Flag EXCEPT !.blank = {Unsent, Null}, !.default = default]
ObjectOrNone == Rule({"object"}, {Unsent, Null}, "object", "object", {})

(* A form as a validator reads it, and whether any field was refused.      *)
Parsed(rules, form) == [c \in DOMAIN rules |-> Reads(rules[c], form[c])]
AllFit(r) == \A c \in DOMAIN r : r[c] # Unfit

Filled(v) == v # Null
DayOf(v) == IF v = NoDay THEN 3 ELSE v

(* chronological: an end is not before its start, where both are given.    *)
InOrder(from, to) == Filled(from) /\ Filled(to) => DayOf(from) <= DayOf(to)
Together(a, b) == Filled(a) <=> Filled(b)
AtMost(a, b) == Filled(a) /\ Filled(b) => a <= b
Within(v, from, to) == Filled(v) => v >= from /\ v <= to
AtLeast(v, least) == Filled(v) => v >= least

-----------------------------------------------------------------------------
(* A column: what it holds, whether it is a number and rounds, and whether *)
(* it may be null.  Words is an enum, or a varchar whose CHECK lists them. *)
Column(holds, counts, rounds) ==
    [holds |-> holds, counts |-> counts, rounds |-> rounds, nullable |-> TRUE]
NotNull(column) == [column EXCEPT !.nullable = FALSE]

Varchar(most) == Column(0..most, FALSE, FALSE)
Numeric == Column(-Most..Most, TRUE, TRUE)
IntegerColumn == Column(-Most..Most, TRUE, FALSE)
DateColumn == Column(Moments, FALSE, FALSE)
Timestamp == Column(Moments, FALSE, FALSE)
Key == Column({"this", "other"}, FALSE, FALSE)
ReferencedKey == Column({"this", "other", "retired"}, FALSE, FALSE)
Boolean == Column(BOOLEAN, FALSE, FALSE)
Words(among) == Column(among, FALSE, FALSE)
Json == Column({"object"}, FALSE, FALSE)

Rounded(v) == IF v >= 0 THEN (v + 5) \div 10 ELSE -((5 - v) \div 10)

Cast(column, v) ==
    IF v = Null THEN IF column.nullable THEN Null ELSE Unfit
    ELSE LET kept == IF column.rounds THEN Rounded(v) ELSE v
         IN  IF kept \in column.holds THEN kept ELSE Unfit

Stored(columns, r) == [c \in DOMAIN columns |-> Cast(columns[c], r[c])]

(* What a validator admits although no column can hold it as it is: a      *)
(* number of more digits, one that rounds to zero, a day there is not.     *)
AtTypeEdge(columns, r) ==
    \E c \in DOMAIN columns :
        \/ r[c] = NoDay
        \/ columns[c].counts /\ r[c] \in {Huge, -Huge}
        \/ columns[c].rounds /\ r[c] \in -4..4 \ {0}
=============================================================================
