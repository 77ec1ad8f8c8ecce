--------------------------- MODULE ServiceProviders ---------------------------
(***************************************************************************)
(* Service providers and the nightly job that makes them follow the offers *)
(* of VIDIS (ServiceProviderService.updateServiceProvidersForVidis).  All  *)
(* mappings between organisations and service providers are deleted and    *)
(* written again, one by one; what fails is skipped (Promise.allSettled).  *)
(***************************************************************************)
EXTENDS OrganisationTree

CONSTANTS
  Services,     \* service providers
  Angebote,     \* offers of VIDIS
  Responses     \* what VIDIS may answer: sets of an offer and the Kennungen it is activated for

ASSUME ServicesAssumption ==
  /\ {"none", "other"} \intersect Angebote = {}
  /\ \A response \in Responses : \A a \in response : a.angebot \in Angebote /\ None \notin a.schulen

VARIABLES
  services,     \* [Services -> "none", "other", or the offer it stands for]
  mappings      \* organisation_service_provider

serviceVars == <<services, mappings>>

IsVidis(s) == services[s] \in Angebote
Resource == <<"vidis", None>>
Mapped == {m.orga : m \in mappings}
ServicesTypeOK ==
  /\ services \in [Services -> Angebote \union {"none", "other"}]
  /\ mappings \subseteq {m \in [orga : Ids, service : Services] : services[m.service] # "none"}

\* getActivatedAngeboteByRegion
VidisBegins(c) ==
  \E response \in Responses :
    /\ Begin(c, [op |-> "vidis", at |-> "clear", response |-> response, save |-> response,
                 map |-> {}, delete |-> {}, touches |-> {Resource}])
    /\ UNCHANGED serviceVars

\* Mutant: the old mappings are kept.
DeleteAllMappings_Kept(c) ==
  /\ req[c].op = "vidis" /\ req[c].at = "clear"
  /\ Goto(c, [req[c] EXCEPT !.at = "write"])
  /\ UNCHANGED serviceVars
DeleteAllMappings(c) ==
  /\ req[c].op = "vidis" /\ req[c].at = "clear"
  /\ mappings' = {}
  /\ Goto(c, [req[c] EXCEPT !.at = "write"])
  /\ UNCHANGED services

\* The service provider of an offer is updated or created, ...
SaveServiceProvider(c) ==
  /\ req[c].op = "vidis" /\ req[c].at = "write"
  /\ \E a \in req[c].save, s \in Services :
       /\ \/ services[s] = a.angebot
          \/ services[s] = "none" /\ \A other \in Services : services[other] # a.angebot
       /\ services' = [services EXCEPT ![s] = a.angebot]
       /\ Goto(c, [req[c] EXCEPT !.save = @ \ {a},
                                 !.map = @ \union {[kennung |-> k, service |-> s] : k \in a.schulen}])
  /\ UNCHANGED mappings

\* Mutant: mappings do not need their service provider.
SaveMapping_Dangling(c) ==
  /\ req[c].op = "vidis" /\ req[c].at = "write"
  /\ \E m \in req[c].map :
       LET found == {i \in Ids : IsThere(i) /\ orgas[i].kennung = m.kennung} IN
       /\ mappings' = mappings \union {[orga |-> i, service |-> m.service] : i \in found}
       /\ Goto(c, [req[c] EXCEPT !.map = @ \ {m}])
  /\ UNCHANGED services
\* ... and mapped to an organisation found by the Kennung, if there is one and the
\* service provider is still there (foreign key).
SaveMapping(c) ==
  /\ req[c].op = "vidis" /\ req[c].at = "write"
  /\ \E m \in req[c].map :
       LET found == {i \in Ids : IsThere(i) /\ orgas[i].kennung = m.kennung} IN
       /\ IF found = {} \/ services[m.service] = "none" THEN UNCHANGED mappings
          ELSE \E i \in found : mappings' = mappings \union {[orga |-> i, service |-> m.service]}
       /\ Goto(c, [req[c] EXCEPT !.map = @ \ {m}])
  /\ UNCHANGED services

\* All have settled: which service providers are no longer offered?
ListObsolete(c) ==
  /\ req[c].op = "vidis" /\ req[c].at = "write" /\ req[c].save = {} /\ req[c].map = {}
  /\ Goto(c, [req[c] EXCEPT !.at = "delete",
       !.delete = {s \in Services : IsVidis(s) /\ \A a \in req[c].response : a.angebot # services[s]}])
  /\ UNCHANGED serviceVars

\* A service provider of a Rolle, or with a mapping, is not deleted (foreign keys).
\* attached: the service providers of the Rollen.
DeleteServiceProvider(c, attached) ==
  /\ req[c].op = "vidis" /\ req[c].at = "delete"
  /\ \E s \in req[c].delete :
       /\ services' = IF s \in attached \/ \E m \in mappings : m.service = s THEN services
                      ELSE [services EXCEPT ![s] = "none"]
       /\ Goto(c, [req[c] EXCEPT !.delete = @ \ {s}])
  /\ UNCHANGED mappings

\* One of these writes is refused; a service provider that was not saved has no mappings.
VidisWriteFails(c) ==
  /\ req[c].op = "vidis" /\ faults < MaxFaults /\ faults' = faults + 1
  /\ \/ \E a \in req[c].save : req[c].at = "write" /\ req' = [req EXCEPT ![c].save = @ \ {a}]
     \/ \E m \in req[c].map : req' = [req EXCEPT ![c].map = @ \ {m}]
     \/ \E s \in req[c].delete : req' = [req EXCEPT ![c].delete = @ \ {s}]
  /\ disturbed' = disturbed \union {Resource}
  /\ UNCHANGED <<tasks, requests, overwritten, serviceVars>>

VidisDone(c) == req[c].op = "vidis" /\ req[c].at = "delete" /\ req[c].delete = {}
VidisEnds(c) == VidisDone(c) /\ GiveUp(c) /\ UNCHANGED serviceVars

ServicesNext(attached) ==
  \E c \in Clients :
    \/ CanBegin(c) /\ VidisBegins(c)
    \/ DeleteAllMappings(c) \/ SaveServiceProvider(c) \/ SaveMapping(c)
    \/ ListObsolete(c) \/ DeleteServiceProvider(c, attached) \/ VidisWriteFails(c) \/ VidisEnds(c)
=============================================================================
