------------------------- MODULE MCCreateDatastore --------------------------
(***************************************************************************)
(* TLC instances of CreateDatastore: seeds, policies and CRSs.             *)
(***************************************************************************)
EXTENDS CreateDatastore

MCSeed(complete, fourDigitYear, id) ==
    [id |-> id, complete |-> complete, fourDigitYear |-> fourDigitYear]
MCProfile(encoding, crs, crsValid, model) ==
    [language |-> TRUE, encoding |-> encoding, crs |-> crs, crsValid |-> crsValid,
     model |-> model, rootName |-> TRUE]
MCCrs(name, epoch) == [name |-> name, epoch |-> epoch]

Wgs84 == MCCrs("WGS 84", NoEpoch)
Itrf == MCCrs("ITRF2014", 2017530)

Seeds == {MCSeed(TRUE, TRUE, "a"), MCSeed(TRUE, TRUE, "b"),
          MCSeed(TRUE, FALSE, "y10k")}
BothCrs == {Wgs84, Itrf}
\* With an epoch of three decimals, which is valid and written with two.
FineCrs == {Wgs84, MCCrs("ITRF2014", 2017531)}
Profiles ==
    {MCProfile("json", Wgs84, TRUE, TRUE), MCProfile("gpkg", Itrf, TRUE, FALSE),
     MCProfile("xml", Wgs84, FALSE, FALSE)}

\* The condition of CreateDatastoreProofs!AcknowledgedAlwaysReads.
ASSUME MCEpochsExact == Crs = BothCrs => EpochsExact
=============================================================================
