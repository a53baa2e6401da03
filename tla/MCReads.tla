------------------------------- MODULE MCReads -------------------------------
(***************************************************************************)
(* An instance of Reads for TLC.                                           *)
(***************************************************************************)
EXTENDS Reads, TLC

\* What the platform may list, and what the user may ask for.
X == <<"x", "Plain">>
Y == <<"y", "Plain">>
EachCountry ==
  [guid : {<<"g1", "Plain">>, <<"g2", "Plain">>}, iso2 : {"x", Absent}, iso3 : {"y", Absent}, name : {X, Y},
   alternative : {"x", Absent}]
  \cup [guid : {Absent}, iso2 : {Absent}, iso3 : {"y", Absent}, name : {X, <<"x", "UPPER">>, Absent},
        alternative : {Absent}]
EachRegion ==
  [code : ({"x", "y"} \X {"Plain", "UPPER"} \X {"bare"}) \cup {<<"x", "Plain", "padded">>, Absent},
   name : {X, Y, <<"x", "UPPER">>, Absent}]
EachPlan ==
  LET unlimited == 0 - 1
      Sold(price, data, days) == [readable |-> TRUE, active |-> TRUE, price |-> price, data |-> data, days |-> days]
  IN {Sold(p, d, 1) : p \in {Absent, 1, 2}, d \in {Absent, 0, 1, unlimited}}
     \cup {Sold(1, d, Absent) : d \in {Absent, unlimited}}
     \cup {[readable |-> r, active |-> ~r, price |-> 1, data |-> 1, days |-> 1] : r \in BOOLEAN}
EachCriterion ==
  [price : {Absent, 1}, data : {Absent, 1}, days : {Absent}, unlimited : {FALSE}, sort : {"price", "data", Absent}]
  \cup [price : {Absent}, data : {Absent}, days : {Absent, 1}, unlimited : BOOLEAN, sort : {"validity"}]

\* What one attempt of a request may meet.
Met(http, parsed, code, hint) ==
  [http |-> http, parsed |-> parsed, code |-> code, failed |-> code \notin {0, 200}, hint |-> hint]
EachAnswer ==
  {[http |-> 0], [http |-> 1]} \cup
  {Met(200, "yes", 200, "none"), Met(200, "yes", 401, "none"), Met(401, "yes", 0, "none"),
   Met(400, "yes", 400, "invalid_otp"), Met(404, "yes", 404, "none"), Met(503, "yes", 503, "none"),
   Met(502, "no", 0, "none"), Met(204, "empty", 0, "none")}

\* No definition prefers one call that lists or reads eSIMs to another.
Symmetry == Permutations(Calls)
=============================================================================
