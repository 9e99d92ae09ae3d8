-------------------------------- MODULE MCAuth --------------------------------
EXTENDS Auth, TLC

CONSTANTS r1, r2

Mix(kinds, codes, passwords) ==
  [kinds |-> kinds, challenges |-> codes, passwords |-> passwords]

\* One for each way the requests of an account meet.
MCMixes == {Mix({"login", "mistyped"}, 1, 1),
            Mix({"mistyped", "reset", "forgot"}, 0, 3),
            Mix({"login", "reset", "forgot"}, 1, 2),
            Mix({"refresh", "logout"}, 0, 2),
            Mix({"refresh", "profile"}, 0, 2),
            Mix({"refresh", "reset", "forgot"}, 0, 2),
            Mix({"login", "verify", "profile"}, 1, 2),
            Mix({"login", "verify", "miscoded", "resend"}, 2, 1),
            Mix({"settings", "confirm", "miscoded"}, 2, 1),
            Mix({"login", "verify", "settings", "confirm", "devices"}, 1, 1)}

Symmetry == Permutations(Requests)
=============================================================================
