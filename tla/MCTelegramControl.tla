--------------------------- MODULE MCTelegramControl ---------------------------
(* Model checking of TelegramControl: an operator switches trading and tries to *)
(* confirm, one admin asks for a reset, and both admins try to confirm it.      *)
EXTENDS TelegramControl

CONSTANTS admin, other, operator

Msg(user, command, token) == [user |-> user, command |-> command, token |-> token]
Resets == {Msg(admin, "/breaker_reset", NoToken), Msg(admin, "/confirm", 1),
           Msg(other, "/confirm", 1), Msg(operator, "/confirm", 1),
           Msg(operator, "/pause", NoToken)}
Switches == {Msg(operator, "/pause", NoToken), Msg(operator, "/resume", NoToken)}
================================================================================
