------------------------------ MODULE Migrations ------------------------------
\* The five Alembic revisions of the database, backend/alembic/versions, as what
\* their upgrade and downgrade scripts do to the schema, and the schema that the
\* ORM models rely on.
\*
\* A schema is a set of objects.  An object has a name and a kind; "of" is the
\* table or view it belongs to and disappears with (a table or view belongs to
\* itself) and "refs" the other tables its definition mentions, which cannot be
\* dropped before it: the targets of a table's foreign keys, the tables a view or
\* a row policy reads.  Columns are left out, except the one that a revision
\* adds to an existing table; a "key" is anything that makes rows unique besides
\* a primary key: a unique column, constraint or index.
EXTENDS Naturals, Sequences

\* An index, key, row policy or column of a table.
Part(kind, name, table, refs) ==
  [kind |-> kind, name |-> name, of |-> table, refs |-> refs]

\* A table with its foreign keys and its keys.
TableObjects(name, refs, keys) ==
  {Part("table", name, name, refs)} \cup {Part("key", k, name, {}) : k \in keys}

-------------------------------------------------------------------------------
(* Statements: op.create_table and the like; a DO block or IF NOT EXISTS       *)
(* clause that runs only when some objects are there; op.drop_table and        *)
(* op.drop_index; DROP ... IF EXISTS, DISABLE ROW LEVEL SECURITY and REVOKE.   *)

Create(objects)          == [do |-> "create", if |-> {}, objects |-> objects, names |-> {}]
CreateWhen(cond, objects) == [do |-> "when", if |-> cond, objects |-> objects, names |-> {}]
Drop(name)               == [do |-> "drop", if |-> {}, objects |-> {}, names |-> {name}]
DropAny(names)           == [do |-> "drop_any", if |-> {}, objects |-> {}, names |-> names]

Table(name, refs, keys)  == Create(TableObjects(name, refs, keys))
Index(name, table)       == Create({Part("index", name, table, {})})
UniqueIndex(name, table) == Create({Part("key", name, table, {})})
View(name, table)        == Create({Part("view", name, name, {table})})
Policy(name, table, refs) == Create({Part("policy", name, table, refs)})
RowSecurity(name, table) == CreateWhen({}, {Part("row_security", name, table, {})})

Named(schema) == {o.name : o \in schema}

\* What a drop takes away: the objects named and all that belongs to them.
Dropped(stmt, schema) == {o \in schema : o.name \in stmt.names \/ o.of \in stmt.names}

\* Nothing that stays mentions what goes.
Unneeded(gone, schema) ==
  gone # {} => Named(gone) \cap UNION {o.refs : o \in schema \ gone} = {}

\* New objects have new names, and what they belong to and mention is there.
Grounded(objects, schema) ==
  UNION {{o.of} \cup o.refs : o \in objects} \subseteq Named(schema \cup objects)

\* PostgreSQL executes the statement rather than raising an error.
Executes(stmt, schema) ==
  /\ stmt.do = "create" => /\ Named(stmt.objects) \cap Named(schema) = {}
                           /\ Grounded(stmt.objects, schema)
  /\ stmt.do = "when" /\ stmt.if \subseteq schema => Grounded(stmt.objects, schema)
  /\ stmt.do = "drop" => stmt.names \subseteq Named(schema)
  /\ Unneeded(Dropped(stmt, schema), schema)

\* The schema after the statement.
Result(stmt, schema) ==
  (schema \ Dropped(stmt, schema)) \cup (IF stmt.if \subseteq schema THEN stmt.objects ELSE {})

\* What a script does, from first to last statement: the schema it leaves, and
\* whether every statement was executed.  (Sets of the one outcome and the one
\* statement make TLC evaluate each of them once.)
Run(script, schema) ==
  LET after[i \in 0..Len(script)] ==
        IF i = 0
        THEN {[schema |-> schema, ok |-> TRUE]}
        ELSE {[schema |-> Result(stmt, at.schema), ok |-> at.ok /\ Executes(stmt, at.schema)] :
                 at \in after[i - 1], stmt \in {script[i]}}
  IN  CHOOSE outcome \in after[Len(script)] : TRUE

-------------------------------------------------------------------------------
(* Objects that belong to the cluster or are left behind on purpose: the       *)
(* extensions, the role and the right to create roles of the migrating user.   *)

Outside(name) == Part("cluster", name, name, {})
Extensions == {Outside("pgcrypto"), Outside("uuid-ossp"), Outside("pg_trgm")}
CreateRole == Outside("rolcreaterole")
EngineReadonly == Outside("engine_readonly")
Lasting == Extensions \cup {CreateRole, EngineReadonly}

ReadGrants ==
  {Part("grant", "grant_company_v", "company_v", {}),
   Part("grant", "grant_price_bar_v", "price_bar_v", {}),
   Part("grant", "grant_news_item_v", "news_item_v", {}),
   Part("grant", "grant_macro_observation_v", "macro_observation_v", {}),
   Part("grant", "grant_peer_relationship_v", "peer_relationship_v", {})}

-------------------------------------------------------------------------------
(* Revision 0001: organisations, users and companies.                          *)

Upgrade1 ==
  << CreateWhen({}, Extensions),
     Table("org", {}, {}),
     Table("app_user", {"org"}, {"app_user_email_key"}),
     Index("app_user_by_org", "app_user"),
     Table("company", {}, {"company_ticker_key"}),
     Index("company_by_market", "company"),
     Table("org_company_access", {"org", "company"}, {}),
     RowSecurity("org_company_access_rls", "org_company_access"),
     RowSecurity("app_user_rls", "app_user"),
     Policy("org_company_access_iso", "org_company_access", {}),
     Policy("app_user_iso", "app_user", {}) >>

Downgrade1 ==
  << DropAny({"app_user_iso"}), DropAny({"org_company_access_iso"}),
     DropAny({"app_user_rls"}), DropAny({"org_company_access_rls"}),
     Drop("org_company_access"),
     DropAny({"company_by_market"}), Drop("company"),
     Drop("app_user_by_org"), Drop("app_user"), Drop("org") >>

-------------------------------------------------------------------------------
(* Revision 0002: peers and crawl runs, raw, curated and derived tables, the   *)
(* views and the role of ad_hoc_query, the ledger of engine calls.             *)

PeersAndRuns ==
  << Table("peer_relationship", {"company", "app_user"}, {}),
     Table("crawl_run", {}, {}),
     Index("crawl_run_recent", "crawl_run") >>

RawTables ==
  << Table("yahoo_price_bar", {"yahoo_price_bar"}, {}),
     UniqueIndex("yahoo_price_bar_unique", "yahoo_price_bar"),
     Table("mfn_press_release", {}, {"mfn_press_release_mfn_id_key"}),
     Index("mfn_press_release_lookup", "mfn_press_release"),
     Table("riksbank_observation", {}, {}),
     UniqueIndex("riksbank_observation_unique", "riksbank_observation"),
     Table("scb_observation", {}, {}),
     Index("scb_observation_lookup", "scb_observation"),
     Table("fred_observation", {}, {}),
     UniqueIndex("fred_observation_unique", "fred_observation"),
     Table("esap_filing", {}, {"esap_filing_esap_id_key"}),
     Index("esap_filing_lookup", "esap_filing") >>

RawFilings ==
  << Table("fi_insider_transaction", {}, {"fi_insider_transaction_publication_id_key"}),
     Index("fi_insider_lookup", "fi_insider_transaction"),
     Table("fi_short_position", {}, {}),
     Index("fi_short_lookup", "fi_short_position"),
     Table("company_ir_rss_item", {"company"}, {"company_ir_rss_item_unique"}) >>

CuratedTables ==
  << Table("price_bar", {"company"}, {"price_bar_unique"}),
     Index("price_bar_lookup", "price_bar"),
     Table("news_item", {"company"}, {"news_item_unique"}),
     Index("news_item_lookup", "news_item"),
     Index("news_item_search", "news_item"),
     Table("macro_observation", {}, {"macro_observation_unique"}),
     Index("macro_observation_lookup", "macro_observation") >>

AnalyticsViews ==
  << View("company_v", "company"), View("price_bar_v", "price_bar"),
     View("news_item_v", "news_item"), View("macro_observation_v", "macro_observation"),
     View("peer_relationship_v", "peer_relationship") >>

DerivedTables ==
  << Table("daily_attribution", {"company"}, {"daily_attribution_unique"}),
     Table("briefing_card", {"company"}, {"briefing_card_unique"}),
     Index("briefing_card_recent", "briefing_card"),
     Table("engine_call", {}, {}),
     Index("engine_call_lookup", "engine_call") >>

\* The role is created only by a user who may, and granted only if it exists.
ReadonlyRole ==
  << CreateWhen({CreateRole}, {EngineReadonly}),
     CreateWhen({EngineReadonly}, ReadGrants) >>

Upgrade2 ==
  PeersAndRuns \o RawTables \o RawFilings \o CuratedTables
    \o AnalyticsViews \o DerivedTables \o ReadonlyRole

Downgrade2 ==
  << DropAny(Named(ReadGrants)),
     DropAny({"engine_call_lookup"}), Drop("engine_call"),
     DropAny({"briefing_card_recent"}), Drop("briefing_card"),
     Drop("daily_attribution"),
     DropAny({"peer_relationship_v"}), DropAny({"macro_observation_v"}),
     DropAny({"news_item_v"}), DropAny({"price_bar_v"}), DropAny({"company_v"}),
     DropAny({"macro_observation_lookup"}), Drop("macro_observation"),
     DropAny({"news_item_search"}), DropAny({"news_item_lookup"}), Drop("news_item"),
     DropAny({"price_bar_lookup"}), Drop("price_bar"),
     Drop("company_ir_rss_item"),
     DropAny({"fi_short_lookup"}), Drop("fi_short_position"),
     DropAny({"fi_insider_lookup"}), Drop("fi_insider_transaction"),
     DropAny({"esap_filing_lookup"}), Drop("esap_filing"),
     DropAny({"fred_observation_unique"}), Drop("fred_observation"),
     DropAny({"scb_observation_lookup"}), Drop("scb_observation"),
     DropAny({"riksbank_observation_unique"}), Drop("riksbank_observation"),
     DropAny({"mfn_press_release_lookup"}), Drop("mfn_press_release"),
     DropAny({"yahoo_price_bar_unique"}), Drop("yahoo_price_bar"),
     DropAny({"crawl_run_recent"}), Drop("crawl_run"), Drop("peer_relationship") >>

-------------------------------------------------------------------------------
(* Revisions 0003 to 0005: chat threads, follow-ups, the log of LLM calls.     *)

Upgrade3 ==
  << Table("chat_thread", {"org", "app_user", "company"}, {}),
     Index("chat_thread_recent", "chat_thread"),
     Table("chat_turn", {"chat_thread"}, {"chat_turn_idx_unique"}),
     Index("chat_turn_lookup", "chat_turn"),
     Table("chat_engine_call", {"chat_turn", "engine_call"}, {}),
     RowSecurity("chat_thread_rls", "chat_thread"),
     RowSecurity("chat_turn_rls", "chat_turn"),
     RowSecurity("chat_engine_call_rls", "chat_engine_call"),
     Policy("chat_thread_iso", "chat_thread", {}),
     Policy("chat_turn_iso", "chat_turn", {"chat_thread"}),
     Policy("chat_engine_call_iso", "chat_engine_call", {"chat_turn", "chat_thread"}) >>

Downgrade3 ==
  << DropAny({"chat_engine_call_iso"}), DropAny({"chat_turn_iso"}),
     DropAny({"chat_thread_iso"}),
     Drop("chat_engine_call"),
     DropAny({"chat_turn_lookup"}), Drop("chat_turn"),
     DropAny({"chat_thread_recent"}), Drop("chat_thread") >>

Upgrade4 == << Create({Part("column", "suggested_followups", "chat_turn", {})}) >>
Downgrade4 == << Drop("suggested_followups") >>

Upgrade5 ==
  << Table("llm_call_log", {"org", "app_user", "chat_thread", "company"}, {}),
     Index("llm_call_log_org_created_idx", "llm_call_log"),
     Index("llm_call_log_surface_idx", "llm_call_log") >>

Downgrade5 ==
  << Drop("llm_call_log_surface_idx"), Drop("llm_call_log_org_created_idx"),
     Drop("llm_call_log") >>

\* The chain of revisions, by down_revision; 0 is the empty database.
Upgrades == << Upgrade1, Upgrade2, Upgrade3, Upgrade4, Upgrade5 >>
Downgrades == << Downgrade1, Downgrade2, Downgrade3, Downgrade4, Downgrade5 >>
LastRevision == Len(Upgrades)

-------------------------------------------------------------------------------
(* The schema a revision stands for: what the upgrades up to it create.  The   *)
(* grants are there when the role was there, or could be created, at 0002.     *)

Made(revision) ==
  (UNION {UNION {Upgrades[r][i].objects : i \in DOMAIN Upgrades[r]} : r \in 1..revision})
    \ (Lasting \cup ReadGrants)

Grants(revision, lasting) ==
  IF revision >= 2 /\ EngineReadonly \in lasting THEN ReadGrants ELSE {}

SchemaOf(revision, lasting) == lasting \cup Made(revision) \cup Grants(revision, lasting)

\* What the database can hold at a revision, whatever it found in the cluster.
SchemasOf(revision) == {SchemaOf(revision, lasting) : lasting \in SUBSET Lasting}

\* Every script executes from the revision it was written for and leaves exactly
\* the revision it leads to: ENGINEERING_STANDARDS.md:58 has migrations "Always
\* reversible".
ASSUME Reversible ==
  \A r \in 1..LastRevision :
    /\ \A s \in SchemasOf(r - 1) :
         Run(Upgrades[r], s).ok /\ Run(Upgrades[r], s).schema \in SchemasOf(r)
    /\ \A s \in SchemasOf(r) :
         Run(Downgrades[r], s).ok /\ Run(Downgrades[r], s).schema \in SchemasOf(r - 1)

-------------------------------------------------------------------------------
(* What the code of the last revision relies on: the tables, foreign keys and  *)
(* keys its ORM models declare.                                                *)

AuthModels ==
  TableObjects("org", {}, {})
    \cup TableObjects("app_user", {"org"}, {"app_user_email_key"})
    \cup TableObjects("company", {}, {"company_ticker_key"})
    \cup TableObjects("org_company_access", {"org", "company"}, {})
    \cup TableObjects("peer_relationship", {"company", "app_user"}, {})

\* ScbObservation and FiShortPosition have no key; the partial unique index of
\* yahoo_price_bar is known to the migration only.
CrawlerModels ==
  TableObjects("crawl_run", {}, {})
    \cup TableObjects("yahoo_price_bar", {"yahoo_price_bar"}, {})
    \cup TableObjects("mfn_press_release", {}, {"mfn_press_release_mfn_id_key"})
    \cup TableObjects("riksbank_observation", {}, {"riksbank_observation_unique"})
    \cup TableObjects("scb_observation", {}, {})
    \cup TableObjects("fred_observation", {}, {"fred_observation_unique"})

FilingModels ==
  TableObjects("esap_filing", {}, {"esap_filing_esap_id_key"})
    \cup TableObjects("fi_insider_transaction", {}, {"fi_insider_transaction_publication_id_key"})
    \cup TableObjects("fi_short_position", {}, {})
    \cup TableObjects("company_ir_rss_item", {"company"}, {"company_ir_rss_item_unique"})

IngestionModels ==
  TableObjects("price_bar", {"company"}, {"price_bar_unique"})
    \cup TableObjects("news_item", {"company"}, {"news_item_unique"})
    \cup TableObjects("macro_observation", {}, {"macro_observation_unique"})

EngineModels ==
  TableObjects("daily_attribution", {"company"}, {"daily_attribution_unique"})
    \cup TableObjects("briefing_card", {"company"}, {"briefing_card_unique"})
    \cup TableObjects("engine_call", {}, {})

ChatModels ==
  TableObjects("chat_thread", {"org", "app_user", "company"}, {})
    \cup TableObjects("chat_turn", {"chat_thread"}, {"chat_turn_idx_unique"})
    \cup {Part("column", "suggested_followups", "chat_turn", {})}
    \cup TableObjects("chat_engine_call", {"chat_turn", "engine_call"}, {})
    \cup TableObjects("llm_call_log", {"org", "app_user", "chat_thread", "company"}, {})

Mapped ==
  AuthModels \cup CrawlerModels \cup FilingModels \cup IngestionModels
    \cup EngineModels \cup ChatModels

\* The models and the migrations agree.
ASSUME MappedIsMade == Mapped \subseteq Made(LastRevision)

\* An earlier revision's code is in the repository only through its migrations.
ReliesOn(code) == IF code = LastRevision THEN Mapped ELSE Made(code)
===============================================================================
