----------------------------- MODULE MCCommands -----------------------------
(***************************************************************************)
(* The instances that TLC checks of the parts of Commands.                 *)
(***************************************************************************)
EXTENDS Commands

Cases     == INSTANCE LifecycleCases
EditCase  == INSTANCE EditCases
ConfigCase == INSTANCE ConfigCases

MCOrder == Cases!CaseOrder
MCParent == Cases!CaseParent
MCWorlds == Cases!CaseWorlds
MCTargetCommands == Cases!Commands
MCSessions == EditCase!CaseSessions
MCTemplates == ConfigCase!CaseTemplates
MCConfigCommands == ConfigCase!Commands
=============================================================================
