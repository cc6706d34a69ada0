----------------------- MODULE MCReleaseObservation -----------------------
(* The three required roles, three configured URLs, two more official ones *)
(* and one outside the authority; the code's attempts and redirects.       *)
EXTENDS ReleaseObservation, TLC

CONSTANTS catalogA, catalogB, archive, moved, mirror, elsewhere

MCOrder == <<"concept_catalog", "institution_catalog", "historical_series_data">>
MCOfficial == {catalogA, catalogB, archive, moved, mirror}
MCUrls == MCOfficial \cup {elsewhere}
MCRequested == [concept_catalog |-> catalogA, institution_catalog |-> catalogB,
                historical_series_data |-> archive]
=============================================================================
