----------------------------- MODULE MCVerwaltung -----------------------------
(* The root, its two branches and up to four organisations below them: three *)
(* Träger and a Schule, or two Schulen, a Klasse and another organisation.   *)
EXTENDS Verwaltung, TLC

CONSTANTS root, oe, er, o1, o2, o3, o4, new1, new2, r1, r2, sp1, sp2, v1, admin, anna, c1, c2

Row(typ, parent, name, kennung) ==
  [typ |-> typ, administriertVon |-> parent, zugehoerigZu |-> parent, name |-> name,
   kennung |-> kennung, itslearningEnabled |-> FALSE, version |-> 1]
Land == root :> Row("ROOT", None, None, None) @@ oe :> Row("LAND", root, None, None)
        @@ er :> Row("LAND", root, None, None)
Nothing == [i \in Ids |-> NoOrga]
Traeger == o1 :> Row("TRAEGER", oe, None, None) @@ o2 :> Row("TRAEGER", o1, None, None)
           @@ o3 :> Row("TRAEGER", o1, None, None) @@ o4 :> Row("SCHULE", o2, None, "1")
           @@ Land @@ Nothing
Schulen == o1 :> Row("SCHULE", oe, None, "1") @@ o2 :> Row("KLASSE", o1, "A", "2")
           @@ o3 :> Row("SCHULE", er, None, "2") @@ o4 :> Row("SONSTIGE", oe, None, None)
           @@ Land @@ Nothing
Enabled == [Schulen EXCEPT ![o1].itslearningEnabled = TRUE, ![o1].version = 2, ![o2].version = 2]

NoGroups == [i \in Ids |-> NoGroup]
NoRollen == [r \in RolleIds |-> NoRolle]
Rolle(merkmale, sps) == [NoRolle EXCEPT !.name = "lern", !.ssk = oe, !.merkmale = merkmale,
                                        !.serviceProvider = sps, !.version = 2]
Kontext(p, o, r) == [person |-> p, orga |-> o, rolle |-> r, befristet |-> FALSE]
MCStarts == {
  [orgas |-> Traeger, groups |-> NoGroups, services |-> sp1 :> "none" @@ sp2 :> "none", mappings |-> {},
   rollen |-> NoRollen, kontexte |-> {}],
  [orgas |-> Schulen, groups |-> NoGroups, services |-> sp1 :> "other" @@ sp2 :> v1,
   mappings |-> {[orga |-> o1, service |-> sp2], [orga |-> o2, service |-> sp2]},
   rollen |-> r1 :> Rolle({BEFRISTUNG_PFLICHT}, {sp1, sp2}) @@ NoRollen, kontexte |-> {}],
  [orgas |-> Enabled, groups |-> [NoGroups EXCEPT ![o2] = [name |-> "A", parentId |-> o1]],
   services |-> sp1 :> "none" @@ sp2 :> v1, mappings |-> {[orga |-> o3, service |-> sp2]},
   rollen |-> r1 :> [Rolle({}, {sp2}) EXCEPT !.rollenart = "LEIT", !.systemrechte = {"ROLLEN_VERWALTEN"}]
              @@ r2 :> [Rolle({}, {}) EXCEPT !.rollenart = "SYSADMIN", !.name = "gast",
                                             !.systemrechte = {PERSONEN_VERWALTEN}],
   kontexte |-> {Kontext(admin, oe, r2), Kontext(admin, o1, r1), Kontext(anna, o1, r1)}]}

MCNewOrgas == {Row("SCHULE", oe, None, "2"), Row("KLASSE", o1, "A", None), Row("KLASSE", o1, "B", None),
               Row("SONSTIGE", o2, None, None)}
MCBodies == {Row("SCHULE", o1, None, "2"), Row("KLASSE", o3, "A", None), Row("TRAEGER", None, None, None),
             Row("TRAEGER", o2, None, "1")}
MCResponses == {{}, {[angebot |-> v1, schulen |-> {"1", "2"}]}}
Symmetry == Permutations({c1, c2}) \union Permutations({new1, new2})
=============================================================================
