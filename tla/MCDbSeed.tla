------------------------------- MODULE MCDbSeed -------------------------------
(* Two organisations, two persons with the same Personalnummer, Rollen in a    *)
(* file that is corrected, and a Kontext that needs one of each.               *)
EXTENDS DbSeed, TLC

Seed(type, id, refs) ==
  [key |-> <<type, id>>, refs |-> refs, override |-> NoUuid, valid |-> TRUE, nummer |-> NoUuid]
Orga(id) == <<"ORGANISATION", id>>
Person(id) == [Seed("PERSON", id, {}) EXCEPT !.nummer = -1]
Rolle == Seed("ROLLE", 1, {Orga(2)})
Rolle3 == [Seed("ROLLE", 3, {}) EXCEPT !.override = -2]

MCContent ==
  "orgas" :> <<[Seed("ORGANISATION", 1, {}) EXCEPT !.override = -1], Seed("ORGANISATION", 2, {Orga(1)})>>
  @@ "persons" :> <<Person(1), Person(2)>>
  @@ "rollen" :> <<Rolle, Rolle3, [Seed("ROLLE", 2, {}) EXCEPT !.valid = FALSE]>>
  @@ "rollen2" :> <<Rolle, Rolle3, Seed("ROLLE", 2, {})>>
  @@ "kontexte" :> <<Seed("KONTEXT", 1, {<<"PERSON", 1>>, Orga(2), <<"ROLLE", 1>>})>>
MCDirectory == <<"orgas", "persons", "rollen", "kontexte">>
MCCorrected == [h \in Hashes |-> IF h = "rollen" THEN "rollen2" ELSE h]
=============================================================================
