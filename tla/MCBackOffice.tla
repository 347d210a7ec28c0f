---------------------------- MODULE MCBackOffice ----------------------------
(***************************************************************************)
(* BackOffice for TLC: interchangeable requests, the limits of the login   *)
(* route, and one person of every role in front of one thing of every sort.*)
(***************************************************************************)
EXTENDS BackOffice, TLC

CONSTANTS ip, account

Interchangeable == Permutations(Tasks)

\* The two buckets of the login route, and one route that counts the address alone.
loginLimit == [k \in Keys |-> IF k = ip THEN 2 ELSE 1]
loginWindow == [k \in Keys |-> 4]
routes == {{ip, account}, {ip}}

\* One person of every role, and one thing of every sort.
everyRole == [p \in Roles |-> p]
everySort == [s \in Sorts |-> s]
owners == [s \in Sorts |->
            CASE s = "order" -> {"SUPPLIER", "DRIVER", "CUSTOMER"}
              [] s \in {"offer", "driver", "driverDocument"} -> {"DRIVER"}
              [] s = "review" -> {"CUSTOMER"}
              [] OTHER -> {"SUPPLIER"}]
=============================================================================
