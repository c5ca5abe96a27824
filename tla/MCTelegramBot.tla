---------------------------- MODULE MCTelegramBot ----------------------------
EXTENDS TelegramBot, TLC

CONSTANTS trainer, clerk, sovereign

MCRoleMap == [u \in Users |-> CASE u = sovereign -> "sovereign"
                                [] u = trainer -> "trading_trainer"
                                [] OTHER -> "none"]

HandlerSymmetry == Permutations(Handlers)
=============================================================================
