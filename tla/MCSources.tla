------------------------------ MODULE MCSources ------------------------------
(* The readers that keep a watermark or a session of their own: the scan of  *)
(* a member's community, two spaces read in public, an approved space and    *)
(* chat room read through the API, and Dynamite Circle.  A behaviour is one  *)
(* of the four, with the variables of the others at rest.                    *)
EXTENDS MCMemberScan, PublicRead, OfficialIngest, Dynamite

VARIABLE source

OneOpen == PublicInit /\ "a" \in open
PublicAtRest == PublicInit /\ open = {}

SourcesInit ==
    /\ Init /\ OfficialInit /\ DynamiteInit
    /\ \/ source = "member" /\ PublicAtRest
       \/ source \in {"official", "dynamite"} /\ PublicAtRest /\ session = NoCookie
       \/ source = "public" /\ OneOpen /\ session = NoCookie

SourcesNext ==
    /\ UNCHANGED source
    /\ \/ source = "member" /\ Next /\ UNCHANGED <<publicVars, officialVars, dynamiteVars>>
       \/ source = "public" /\ PublicNext /\ UNCHANGED <<vars, officialVars, dynamiteVars>>
       \/ source = "official" /\ OfficialNext /\ UNCHANGED <<vars, publicVars, dynamiteVars>>
       \/ source = "dynamite" /\ DynamiteNext /\ UNCHANGED <<vars, publicVars, officialVars>>

SourcesSpec ==
    SourcesInit /\ [][SourcesNext]_<<source, vars, publicVars, officialVars, dynamiteVars>>
=============================================================================
