----------------------------- MODULE MCReading -----------------------------
(***************************************************************************)
(* The instances that TLC checks of the parts of Reading.                  *)
(***************************************************************************)
EXTENDS Reading

SourceCases == INSTANCE ReadCases
ExtCases == INSTANCE ExternalCases

MCSources == SourceCases!ReadSources
MCExternals == ExtCases!CaseExternals
MCContents == ExtCases!CaseContents
MCHeaders == ExtCases!CaseHeaders
============================================================================
