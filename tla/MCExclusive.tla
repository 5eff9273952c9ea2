---------------------------- MODULE MCExclusive ----------------------------
(* The instances of ClaimProtocol that meet the settings in which claims   *)
(* are exclusive and attempts are counted: TLC evaluates the assumptions   *)
(* on each of them.                                                        *)
EXTENDS MCClaimProtocol

ASSUME SettingHolds == ExclusiveSetting /\ OneStageSetting
=============================================================================
