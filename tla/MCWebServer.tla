------------------------------ MODULE MCWebServer ------------------------------
(* The routes of api_register_handlers, and URIs of every kind.               *)
EXTENDS WebServer, SequencesExt

Gets == <<"/api/health", "/api/plc/status", "/api/plc/graph/active", "/api/plc/log/dump">>
Posts == <<"/api/plc/persist/save", "/api/plc/persist/load", "/api/plc/graph/upload",
           "/api/plc/graph/activate", "/api/plc/safe/reset", "/api/plc/output/force",
           "/api/plc/output/release", "/api/plc/mem/reset", "/api/plc/mem/info",
           "/api/plc/mem/read", "/api/plc/mem/write/bool", "/api/plc/mem/write/int",
           "/api/plc/mem/write/real">>

ApiRoutesDef ==
    [i \in DOMAIN Gets |-> <<"GET", Gets[i]>>] \o [i \in DOMAIN Posts |-> <<"POST", Posts[i]>>]

UnderApiDef == ToSet(Gets) \cup ToSet(Posts) \cup {"/api/ping"}
StoredDef   == {"/", "/app.js"}
UrisDef     == UnderApiDef \cup StoredDef \cup {"/settings", "/../x", "/long"}
=============================================================================
