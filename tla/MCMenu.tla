-------------------------------- MODULE MCMenu --------------------------------
(* Values for TLC: a job of two sessions, one of which its client cannot resume, and a *)
(* job of one; values that the registry takes, changes and refuses.                    *)
EXTENDS Menu, TLC

CopiesOfOne == Permutations(Versions)

a1 == [job |-> "a", number |-> 1, resumable |-> TRUE]
a2 == [job |-> "a", number |-> 2, resumable |-> FALSE]
b1 == [job |-> "b", number |-> 1, resumable |-> TRUE]
TwoJobs == {a1, a2, b1}
Found == {[sessions |-> {a1, b1}, tagged |-> {"a"}]}

SomeRaws == [sort |-> {"recent", "loud"}, default_tag |-> {" sprint ", "  ", " None "},
             client |-> {"codex"}, environment |-> {"home"}, max_bytes |-> {"0", "1"},
             warn_percent |-> {"101"}, hints |-> {" YES ", "x"}, args |-> {""}]
ByHand == {[key |-> "max_bytes", value |-> Stored("int", "0")],
           [key |-> "default_tag", value |-> Stored("str", "two words")]}
===============================================================================
