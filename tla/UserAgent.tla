------------------------------ MODULE UserAgent ------------------------------
(***************************************************************************)
(* The user agent of a version message (connection/src/user_agent.rs): its *)
(* validation and its construction from a name and a version.              *)
(*                                                                         *)
(* A string is a sequence of characters.  Of them the code tells "/" and   *)
(* ":" apart, which are one byte long, so that the byte indices of its     *)
(* slice fall on characters.                                               *)
(***************************************************************************)
EXTENDS Naturals, Sequences, FiniteSets

CONSTANT Char  \* the characters besides "/" and ":"

String == Seq(Char \cup {"/", ":"})

UserAgentError == {"InvalidFormat", "MissingName", "MissingVersion"}

starts_with(s, c) == Len(s) > 0 /\ s[1] = c
ends_with(s, c) == Len(s) > 0 /\ s[Len(s)] = c
contains(s, c) == \E i \in 1..Len(s) : s[i] = c

\* The slice [1..len - 1] panics when it would end before it starts.
slices(s) == Len(s) >= 2
slice(s) == SubSeq(s, 2, Len(s) - 1)

\* split(c) cuts a string at each occurrence of c.
Cuts(s, c) == {i \in 1..Len(s) : s[i] = c}
split_len(s, c) == Cardinality(Cuts(s, c)) + 1

\* The parts of a string that split(c) cuts in two.
Cut(s, c) == CHOOSE i \in Cuts(s, c) : TRUE
FirstPart(s, c) == SubSeq(s, 1, Cut(s, c) - 1)
SecondPart(s, c) == SubSeq(s, Cut(s, c) + 1, Len(s))

validate_bitcoin_core_format(user_agent) ==
  LET contents == slice(user_agent)
  IN  IF ~starts_with(user_agent, "/") \/ ~ends_with(user_agent, "/") THEN "InvalidFormat"
      ELSE IF ~contains(user_agent, ":") THEN "InvalidFormat"
      ELSE IF ~slices(user_agent) THEN "panic"
      ELSE IF split_len(contents, ":") # 2 THEN "InvalidFormat"
      ELSE IF FirstPart(contents, ":") = << >> THEN "MissingName"
      ELSE IF SecondPart(contents, ":") = << >> THEN "MissingVersion"
      ELSE "Ok"

bitcoin_core_format(name, version) == <<"/">> \o name \o <<":">> \o version \o <<"/">>

\* UserAgent::new() keeps the string it has validated; from_name_version()
\* validates nothing.
from_name_version(name, version) == bitcoin_core_format(name, version)

(***************************************************************************)
(* The format as the documentation has it, "/name:version/".               *)
(***************************************************************************)
Component(s) == s \in String /\ ~contains(s, ":")

Proper(name, version) ==
  /\ Component(name) /\ Len(name) > 0
  /\ Component(version) /\ Len(version) > 0

WellFormed(s) ==
  \E name, version \in String :
    Proper(name, version) /\ s = bitcoin_core_format(name, version)
=============================================================================
