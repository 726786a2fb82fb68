------------------------------- MODULE Settings -------------------------------
(***************************************************************************)
(* What `gmlw config set` accepts (common/settings_registry.py) and what   *)
(* the rest of gmlw reads back (common/config.py): one setting of each     *)
(* kind.  A stored value is a TOML type and its text; anything may be      *)
(* stored, since the user also edits the file by hand.                     *)
(***************************************************************************)
EXTENDS Integers

TrueWords == {"true", "yes"}
FalseWords == {"false", "no"}

\* The texts that are integers; every other one is no number.
Number == [n \in {"-1", "0", "1", "100", "101"} |->
             CASE n = "-1" -> -1 [] n = "0" -> 0 [] n = "1" -> 1 [] n = "100" -> 100 [] n = "101" -> 101]

\* A row of the registry: what a command enforces, and the least an integer's reader takes.
IntRow(default, least, most, floor) ==
  [kind |-> "int", default |-> default, choices |-> {}, least |-> least, most |-> most, floor |-> floor]
Row(kind, default, choices) ==
  [kind |-> kind, default |-> default, choices |-> choices, least |-> 0, most |-> 0, floor |-> 0]

Registry ==
  [sort         |-> Row("choice", "name", {"name", "recent"}),
   default_tag  |-> Row("optional", "", {}),
   client       |-> Row("str", "claude", {}),
   environment  |-> Row("str", "work", {}),
   max_bytes    |-> IntRow("100", 1, 1000000, 1),
   warn_percent |-> IntRow("100", 1, 100, 0),
   hints        |-> Row("bool", "true", {}),
   args         |-> Row("entry", "", {})]

Settings == DOMAIN Registry

Stored(type, text) == [type |-> type, text |-> text]
NotSet == Stored("absent", "")
Invalid == Stored("invalid", "")

\* A text without the blanks around it, and in lower case.
Strip(text) == CASE text = " sprint " -> "sprint" [] text = " None " -> "None" [] text = " YES " -> "YES"
                 [] text = "  " -> "" [] OTHER -> text
Lower(text) == CASE text = "None" -> "none" [] text = "YES" -> "yes" [] OTHER -> text
Word(text) == Lower(Strip(text))

\* A number within the row's bounds.  Mutant: the lower one is not enforced.
UnderMost(row, n) == n <= row.most
InBounds(row, n) == n \in row.least..row.most

\* The TOML type that a kind of setting is stored in.
Type(row) == IF row.kind \in {"bool", "int"} THEN row.kind ELSE "str"

\* coerce, and parse_entry: what is written for the text a command was given.
Accepts(row, raw) ==
  /\ row.kind = "bool" => Word(raw) \in TrueWords \union FalseWords
  /\ row.kind = "int" => raw \in DOMAIN Number /\ InBounds(row, Number[raw])
  /\ row.kind = "choice" => raw \in row.choices
  /\ row.kind = "str" => raw # ""
Clears(row, raw) ==
  \/ row.kind \in {"optional", "entry"} /\ raw = ""
  \/ row.kind = "optional" /\ Word(raw) = "none"
Coerce(setting, raw) ==
  LET row == Registry[setting]
      text == IF row.kind # "bool" THEN raw ELSE IF Word(raw) \in TrueWords THEN "true" ELSE "false"
  IN IF ~Accepts(row, raw) THEN Invalid
     ELSE IF Clears(row, raw) THEN NotSet ELSE Stored(Type(row), text)

\* A default tag is stripped before it is looked at: one of blanks alone is none.
BlankTag(setting, stored) == setting = "default_tag" /\ Strip(stored.text) = ""

\* The readers: a value of the wrong type, out of bounds or empty is the default.
Takes(setting, stored) ==
  LET row == Registry[setting]
  IN /\ stored.type = Type(row)
     /\ row.kind = "int" => Number[stored.text] >= row.floor
     /\ row.kind = "choice" => stored.text \in row.choices
     /\ row.kind \in {"optional", "str", "entry"} => stored.text # ""
     /\ ~BlankTag(setting, stored)

Read(setting, stored) ==
  IF ~Takes(setting, stored) THEN Registry[setting].default
  ELSE IF setting = "default_tag" THEN Strip(stored.text) ELSE stored.text

\* _default_tag: a tag that is no valid name is no default.
DefaultTag(stored) == LET tag == Read("default_tag", stored)
                      IN IF tag = "two words" THEN "" ELSE tag
===============================================================================
