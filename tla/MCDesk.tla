------------------------------- MODULE MCDesk -------------------------------
(***************************************************************************)
(* The owner's desks, the feed, the directory of models, the deploy        *)
(* wizard, the full test, the upload form and what looks at the file it    *)
(* sends, for TLC: ten modules in one instance.  Their handlers share one  *)
(* table and no row of the database, so each behaviour stays at one desk,  *)
(* and at the operations of it that `desk` names.                          *)
(***************************************************************************)
EXTENDS Features, Settings, Catalog, Benefits, Mail, Storage, DeployWizard,
        FullTest, UploadForm, ModelInspection

CONSTANTS
    Toggled,        \* BOUND: the entries that are toggled ...
    Named           \* BOUND: ... and the names given at the catalog's desks

VARIABLE desk       \* the operations handlers may be begun for

InspectedTransforms == {<<2, 0>>, <<1, 3>>}     \* one scales, one moves
InspectedObjects  == Parts \X {1}
InspectedBuilt    == {"root"} \X ObjectIds
InspectedReferred == {<<None, 1>>, <<None, 2>>} \cup InspectedObjects

Symmetry == Permutations(Requests) \cup Permutations(Members \ {PrinterOwner})

FeatureDesks == {{"createFeature", "withdrawFeature", "moveFeature"},
                 {"createFeature", "withdrawFeature", "changeFeaturePriority"},
                 {"createFeature", "withdrawFeature", "addFeatureComment"}}
SettingsDesks == {{"saveSettings"}}
CatalogDesks  == {{"move", "add"}, {"move", "remove"},
                  {"toggle", "remove"}, {"add", "remove"}, {"add", "edit"}}
BenefitDesks  == {BenefitOps}
MailDesks     == {{"notify"}, {"test"}}
StorageDesks  == {StorageOps}
WizardDesks   == {{"deploy"}}
TestDesks     == {{"fullTest"}}
FormDesks     == {{"form"}}
InspectionDesks == {{"inspection"}}

Unlooked == [size |-> "none", ext |-> "other", looks |-> "nothing", opens |-> "yes",
             triangles |-> 0, mesh |-> Flat({})]

NoFiles == [f \in Range(ENV_FILES) |-> None]
Untested ==
    /\ original = NoFiles /\ envFile = NoFiles /\ copies = Nothing
    /\ container = Nothing /\ theirs = Nothing /\ parked = << >> /\ leftWhole = TRUE

DeskInit ==
    /\ desk \in FeatureDesks \cup SettingsDesks \cup CatalogDesks \cup BenefitDesks
                   \cup MailDesks \cup StorageDesks \cup WizardDesks \cup FormDesks
                   \cup TestDesks \cup InspectionDesks
    /\ job = Nothing /\ mishaps = 0
    /\ FeatureInit /\ CatalogInit /\ BenefitInit
    \* BOUND: the environment says something of one setting; a row that is found has
    \* something for both, or for neither
    /\ SettingsInit
    /\ IF desk \in SettingsDesks
       THEN (\E f \in SETTING_KEYS : env[f] # "absent") /\ Cardinality(Range(settingsRow)) <= 1
       ELSE settingsRow = NoRow /\ env = [f \in SETTING_KEYS |-> "absent"]
    /\ MailInit /\ (desk \notin MailDesks => transport)
    /\ StorageInit /\ (desk \notin StorageDesks => object = Nothing /\ file = Nothing)
    \* BOUND: at most one release beside the line
    /\ WizardInit
    /\ IF desk \in WizardDesks
       THEN Cardinality({k \in DOMAIN releases : releases[k].off}) <= 1
       ELSE releases = << >> /\ tag.kind = "other"
    /\ FormInit /\ (desk \notin FormDesks => ~printAgain)
    \* BOUND: .env and .env.backup are both there, or neither
    /\ IF desk \in TestDesks THEN FullTestInit /\ original[".env"] = original[".env.backup"]
       ELSE Untested
    /\ IF desk \in InspectionDesks THEN InspectionInit
       ELSE upload = Unlooked /\ inspection = Pending

\* The id the database gives first
FirstBenefit == CHOOSE b \in BenefitIds : TRUE

\* The variables of each desk but `job` and `mishaps`
features  == <<feature, featureComment, featureNotice, featureTrail, filed>>
settings  == <<env, settingsRow, saved, locked, settingsTrail>>
catalog   == <<entry, catalogTrail, arranged, used>>
benefits  == <<benefit, benefitTrail, lastWord>>
feed      == <<transport, subscribed, suspended, ticket, notice, mailTrail, raised,
               mailed>>
directory == <<up, object, row, file, disk, given, kept>>
host      == <<releases, tag, running, ran, told>>
checkout  == testVars
browser   == formVars
inspected == <<upload, inspection>>

deskVars == <<desk, job, mishaps, features, settings, catalog, benefits, feed, directory,
              host, checkout, browser, inspected>>

AtTheFeatures ==
    /\ desk \in FeatureDesks
    /\ FeatureNext
    /\ \A q \in DOMAIN job' : job'[q].op \in desk
    /\ UNCHANGED <<settings, catalog, benefits, feed, directory, host, checkout,
                  browser, inspected>>

AtTheSettings ==
    /\ desk \in SettingsDesks
    /\ SettingsNext
    /\ UNCHANGED <<features, catalog, benefits, feed, directory, host, checkout,
                  browser, inspected>>

\* Two moves at once are looked at beside removals, not beside
\* additions, which make the list longer.
AtTheCatalog ==
    /\ desk \in CatalogDesks
    /\ CatalogNext
    /\ "add" \in desk => Cardinality(InFlight({"move"})') <= 1
    /\ \A q \in DOMAIN job' :
          /\ job'[q].op \in desk
          /\ job'[q].op = "toggle" => job'[q].of \in Toggled
          /\ job'[q].op \in {"add", "edit"} => job'[q].name \in Named
          /\ job'[q].op = "add" => job'[q].list \in {Top, 1}
    /\ UNCHANGED <<features, settings, benefits, feed, directory, host, checkout,
                  browser, inspected>>

AtTheBenefits ==
    /\ desk \in BenefitDesks
    /\ BenefitNext
    /\ benefit' = Nothing \/ FirstBenefit \in DOMAIN benefit'
    /\ UNCHANGED <<features, settings, catalog, feed, directory, host, checkout,
                  browser, inspected>>

AtTheFeed ==
    /\ desk \in MailDesks
    /\ MailNext
    /\ \A q \in DOMAIN job' : job'[q].op \in desk
    /\ UNCHANGED <<features, settings, catalog, benefits, directory, host, checkout,
                  browser, inspected>>

AtTheDirectory ==
    /\ desk \in StorageDesks
    /\ StorageNext
    /\ UNCHANGED <<features, settings, catalog, benefits, feed, host, checkout,
                  browser, inspected>>

AtTheWizard ==
    /\ desk \in WizardDesks
    /\ WizardNext
    /\ UNCHANGED <<features, settings, catalog, benefits, feed, directory, checkout,
                  browser, inspected>>

AtTheTest ==
    /\ desk \in TestDesks
    /\ FullTestNext
    /\ UNCHANGED <<features, settings, catalog, benefits, feed, directory, host, browser,
                  inspected>>

AtTheForm ==
    /\ desk \in FormDesks
    /\ FormNext
    /\ UNCHANGED <<job, mishaps, features, settings, catalog, benefits, feed, directory,
                  host, checkout, inspected>>

AtTheInspection ==
    /\ desk \in InspectionDesks
    /\ inspect
    /\ UNCHANGED <<job, mishaps, features, settings, catalog, benefits, feed, directory,
                  host, checkout, browser>>

DeskNext ==
    /\ UNCHANGED desk
    /\ AtTheFeatures \/ AtTheSettings \/ AtTheCatalog \/ AtTheBenefits \/ AtTheFeed
       \/ AtTheDirectory \/ AtTheWizard \/ AtTheTest \/ AtTheForm \/ AtTheInspection
    /\ desk \notin StorageDesks \cup TestDesks => mishaps' <= MaxMishaps - 1

DeskSpec == DeskInit /\ [][DeskNext]_deskVars
-----------------------------------------------------------------------------
\* The tables and the handlers at every desk keep their types, and the database
\* its own rules: no two entries of a list, and no two benefits, of one name, no
\* colour without its material, no notice about a ticket that has gone.
DeskTypeOK ==
    /\ FeatureTypeOK /\ SettingsTypeOK /\ CatalogTypeOK
    /\ BenefitTypeOK /\ MailTypeOK /\ StorageTypeOK /\ WizardTypeOK
=============================================================================
