------------------------------ MODULE Endpoints ------------------------------
(***************************************************************************)
(* The methods of MispClient's namespaces.  Each sends one request through *)
(* AsyncTransport.request (sightings.index may send another before it, and *)
(* search() and iter_search() of attributes are search_page(), see         *)
(* FederatedSearch) and hands the JSON answer to a reader.  A row says     *)
(* whether the request may be sent again (idempotent is left at True) and  *)
(* which reader it is; paths and bodies are left out.                      *)
(***************************************************************************)

\* An answer, by what the readers tell apart: an object without the key that
\* names its content (complete or not), one with the key, by what it holds, a
\* list of objects, of anything else, an empty one, and a scalar.
Bare    == {"bare", "hollow"}
Keyed   == {"key: object", "key: list", "key: scalars", "key: scalar"}
Lists   == {"list", "scalars", "empty"}
Answers == Bare \cup Keyed \cup Lists \cup {"scalar"}

\* The answers that each reader turns into a value.
Reads == [
    object   |-> Bare \cup Keyed,                        \* _as_dict
    list     |-> Lists,                                  \* _as_list
    unwrap   |-> Bare \cup {"key: object"},              \* _unwrap
    model    |-> {"bare", "key: object"},                \* from_misp() of one
    models   |-> {"list", "empty"},                      \* ... of each item
    response |-> Bare \cup {"key: list"},                \* ... of what "response" holds
    unwraps  |-> {"list", "empty"},                      \* _unwrap() of each item
    found    |-> Bare \cup {"key: list"},                \* ... of what "response" holds
    page     |-> Bare \cup {"key: object"},              \* search_page()
    either   |-> Lists \cup {"key: list", "key: scalars"},
    entries  |-> Bare \cup (Keyed \ {"key: scalar"}),    \* list() of what it finds
    hits     |-> Bare \cup Keyed \cup {"empty"},
    minimal  |-> Answers,                                \* {} for what is no object
    anything |-> Answers]

\* Code between the two guards, _as_* and parses_misp: .get() of an item that is
\* no object, list() of a number.
Crashes == [r \in DOMAIN Reads |->
    CASE r = "models"   -> {"scalars"}
      [] r = "response" -> {"key: scalars"}
      [] r = "entries"  -> {"key: scalar"}
      [] OTHER          -> {}]

Outcome(reader, answer) ==
    IF answer \in Reads[reader] THEN "returned"
    ELSE IF answer \in Crashes[reader] THEN "crashed" ELSE "raised"

-----------------------------------------------------------------------------
(* One row per method.                                                     *)

Rows(namespace, again, once) ==
    LET Of(table, retried) ==
            UNION {{[namespace |-> namespace, method |-> m, reader |-> r, again |-> retried] :
                        m \in table[r]} : r \in DOMAIN table}
    IN  Of(again, TRUE) \cup Of(once, FALSE)

AddIsRetried ==                                                 \* mutant
    Rows("events", [model |-> {"get", "add"}], [model |-> {"update"}])
EventsNamespace == Rows("events",
    [model    |-> {"get"},
     list     |-> {"list", "index"},
     response |-> {"search"}],
    [model    |-> {"add", "update"},
     object   |-> {"delete", "publish", "unpublish", "add_tag", "remove_tag", "enrich"}])

AttributesNamespace == Rows("attributes",
    [model  |-> {"get"},
     models |-> {"list", "by_base64_value"},
     unwrap |-> {"describe_types"},
     object |-> {"statistics"},
     page   |-> {"search_page"}],
    [model  |-> {"add", "update", "restore"},
     object |-> {"delete", "add_tag", "remove_tag", "enrich"}])

TagsNamespace == Rows("tags",
    [either |-> {"list"}, unwrap |-> {"get"}, list |-> {"search"}],
    [unwrap |-> {"add", "update"}, object |-> {"delete"}])

SightingsNamespace == Rows("sightings",
    [unwraps |-> {"index"}],
    [object |-> {"add", "add_to_attribute", "delete"}])

ObjectsNamespace == Rows("objects",
    [found |-> {"search"}, model |-> {"get"}],
    [model |-> {"add"}, object |-> {"delete"}])

SystemNamespace == Rows("system", [object |-> {"version", "capabilities"}], [object |-> {}])

ListNamespace == Rows("templates", [anything |-> {"list"}], [object |-> {}])

TaxonomiesNamespace == Rows("taxonomies",
    [list |-> {"list"}, object |-> {"get", "export"}, entries |-> {"tags"}],
    [object |-> {"enable", "disable", "update"}])

WarninglistsNamespace == Rows("warninglists",
    [either |-> {"list"}, object |-> {"get"}, hits |-> {"check_value"}],
    [object |-> {"toggle", "update"}])

NoticelistsNamespace == Rows("noticelists",
    [list |-> {"list"}, object |-> {"get"}],
    [object |-> {"toggle", "update"}])

GalaxiesNamespace == Rows("galaxies",
    [list |-> {"list", "export"}, object |-> {"get"}],
    [object |-> {"update", "delete", "import_clusters", "attach_cluster"}])

GalaxyClustersNamespace == Rows("galaxy_clusters",
    [list |-> {"index"}, object |-> {"get"}],
    [object |-> {"add", "update", "publish", "unpublish", "delete", "restore"}])

EventReportsNamespace == Rows("event_reports",
    [list |-> {"list"}, unwrap |-> {"get"}],
    [unwrap |-> {"add", "update", "restore", "import_from_url"}, object |-> {"delete"}])

AnalystDataNamespace == Rows("analyst_data",
    [list |-> {"index"}, object |-> {"get"}, minimal |-> {"index_minimal"}],
    [object |-> {"add", "update", "delete"}])

CollectionsNamespace == Rows("collections",
    [list |-> {"list"}, unwrap |-> {"get"}],
    [unwrap |-> {"add", "update"}, object |-> {"delete"}])

LogsNamespace == Rows("logs", [list |-> {"search"}], [object |-> {}])

ServersNamespace == Rows("servers",
    [list   |-> {"list"},
     object |-> {"pymisp_version", "settings", "get_setting", "workers", "instance_uuid"}],
    [unwrap |-> {"add", "update", "import_server"},
     object |-> {"delete", "pull", "push", "set_setting", "start_worker", "stop_worker",
                 "kill_all_workers", "restart_workers", "restart_dead_workers",
                 "update_misp", "update_json", "cache", "create_sync"}])

OrganisationsNamespace == Rows("organisations",
    [list |-> {"list"}, unwrap |-> {"get"}],
    [unwrap |-> {"add", "update"}, object |-> {"delete"}])

UsersNamespace == Rows("users",
    [list |-> {"list"}, unwrap |-> {"get"}],
    [unwrap |-> {"add", "update"},
     object |-> {"delete", "initiate_password_reset", "delete_totp"}])

AuthKeysNamespace == Rows("auth_keys",
    [list |-> {"list"}, unwrap |-> {"get"}],
    [unwrap |-> {"add", "update"}, object |-> {"delete"}])

UserSettingsNamespace == Rows("user_settings",
    [list |-> {"list"}, unwrap |-> {"get", "get_setting"}],
    [unwrap |-> {"set_setting"}, object |-> {"delete"}])

FeedsNamespace == Rows("feeds",
    [list |-> {"list"}, unwrap |-> {"get"}],
    [unwrap |-> {"add", "update"},
     object |-> {"enable", "disable", "cache", "fetch", "fetch_all"}])

SharingGroupsNamespace == Rows("sharing_groups",
    [either |-> {"list"}, unwrap |-> {"get"}],
    [unwrap |-> {"add", "update"},
     object |-> {"delete", "add_org", "remove_org", "add_server", "remove_server"}])

SharingGroupBlueprintsNamespace == Rows("sharing_group_blueprints",
    [list |-> {"list", "orgs"}, unwrap |-> {"get"}],
    [unwrap |-> {"add", "update"}, object |-> {"execute", "detach", "delete"}])

\* MispClient's attributes.
Endpoints == UNION {
    EventsNamespace, AttributesNamespace, TagsNamespace, SightingsNamespace,
    ObjectsNamespace, SystemNamespace, ListNamespace, TaxonomiesNamespace,
    WarninglistsNamespace, NoticelistsNamespace, GalaxiesNamespace,
    GalaxyClustersNamespace, EventReportsNamespace, AnalystDataNamespace,
    CollectionsNamespace, LogsNamespace, ServersNamespace, OrganisationsNamespace,
    UsersNamespace, AuthKeysNamespace, UserSettingsNamespace, FeedsNamespace,
    SharingGroupsNamespace, SharingGroupBlueprintsNamespace}

\* What MISP's API says of them: these answer and change nothing.
ReadOnly == {"get", "list", "index", "search", "search_page", "by_base64_value",
             "describe_types", "statistics", "version", "capabilities", "tags", "export",
             "check_value", "index_minimal", "orgs", "pymisp_version", "settings",
             "get_setting", "workers", "instance_uuid", "server_capabilities", "refresh"}
Changes(row) == row.method \notin ReadOnly
=============================================================================
