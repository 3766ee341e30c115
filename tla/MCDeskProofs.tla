----------------------------- MODULE MCDeskProofs ----------------------------
(***************************************************************************)
(* That the ten modules in one instance are each as they are by            *)
(* themselves: a behaviour of the instance is, at the desk that it is at,  *)
(* one of that desk's module, and what the other nine model stays as it    *)
(* was.  So what is proved of each of them holds of the instance.          *)
(***************************************************************************)
EXTENDS MCDesk, DeskProofs, HostProofs

\* Nobody has looked at a file.
NothingLooked == upload = Unlooked /\ inspection = Pending
-----------------------------------------------------------------------------
\* No two desks are one

\* No desk is both of the feature requests and another's.
LEMMA FeatureApart ==
    ASSUME desk \in FeatureDesks
    PROVE  desk \notin SettingsDesks \cup CatalogDesks \cup BenefitDesks \cup
                            MailDesks \cup StorageDesks \cup
                            WizardDesks \cup TestDesks \cup
                            FormDesks \cup InspectionDesks
  <1>1. "createFeature" \in desk
    BY DEF FeatureDesks
  <1> QED
    BY <1>1 DEF SettingsDesks, CatalogDesks, BenefitDesks, MailDesks, StorageDesks,
              WizardDesks, TestDesks, FormDesks, InspectionDesks,
              BenefitOps, StorageOps, Writers

\* No desk is both of the settings and another's.
LEMMA SettingsApart ==
    ASSUME desk \in SettingsDesks
    PROVE  desk \notin FeatureDesks \cup CatalogDesks \cup BenefitDesks \cup
                            MailDesks \cup StorageDesks \cup
                            WizardDesks \cup TestDesks \cup
                            FormDesks \cup InspectionDesks
  <1>1. "saveSettings" \in desk
    BY DEF SettingsDesks
  <1> QED
    BY <1>1 DEF FeatureDesks, CatalogDesks, BenefitDesks, MailDesks, StorageDesks,
              WizardDesks, TestDesks, FormDesks, InspectionDesks,
              BenefitOps, StorageOps, Writers

\* No desk is both of the catalog and another's.
LEMMA CatalogApart ==
    ASSUME desk \in CatalogDesks
    PROVE  desk \notin FeatureDesks \cup SettingsDesks \cup BenefitDesks \cup
                            MailDesks \cup StorageDesks \cup
                            WizardDesks \cup TestDesks \cup
                            FormDesks \cup InspectionDesks
  <1>1. "add" \in desk \/ "remove" \in desk
    BY DEF CatalogDesks
  <1> QED
    BY <1>1 DEF FeatureDesks, SettingsDesks, BenefitDesks, MailDesks, StorageDesks,
              WizardDesks, TestDesks, FormDesks, InspectionDesks,
              BenefitOps, StorageOps, Writers

\* No desk is both of the benefits and another's.
LEMMA BenefitApart ==
    ASSUME desk \in BenefitDesks
    PROVE  desk \notin FeatureDesks \cup SettingsDesks \cup CatalogDesks \cup
                            MailDesks \cup StorageDesks \cup
                            WizardDesks \cup TestDesks \cup
                            FormDesks \cup InspectionDesks
  <1>1. "createBenefit" \in desk
    BY DEF BenefitDesks, BenefitOps
  <1> QED
    BY <1>1 DEF FeatureDesks, SettingsDesks, CatalogDesks, MailDesks, StorageDesks,
              WizardDesks, TestDesks, FormDesks, InspectionDesks,
              StorageOps, Writers

\* No desk is both of the feed and another's.
LEMMA MailApart ==
    ASSUME desk \in MailDesks
    PROVE  desk \notin FeatureDesks \cup SettingsDesks \cup CatalogDesks \cup
                            BenefitDesks \cup StorageDesks
                            \cup WizardDesks \cup TestDesks
                            \cup FormDesks \cup
                            InspectionDesks
  <1>1. "notify" \in desk \/ "test" \in desk
    BY DEF MailDesks
  <1> QED
    BY <1>1 DEF FeatureDesks, SettingsDesks, CatalogDesks, BenefitDesks, StorageDesks,
              WizardDesks, TestDesks, FormDesks, InspectionDesks,
              BenefitOps, StorageOps, Writers

\* No desk is both of the directory and another's.
LEMMA StorageApart ==
    ASSUME desk \in StorageDesks
    PROVE  desk \notin FeatureDesks \cup SettingsDesks \cup CatalogDesks \cup
                            BenefitDesks \cup MailDesks \cup
                            WizardDesks \cup TestDesks \cup
                            FormDesks \cup InspectionDesks
  <1>1. "putModel" \in desk
    BY DEF StorageDesks, StorageOps, Writers
  <1> QED
    BY <1>1 DEF FeatureDesks, SettingsDesks, CatalogDesks, BenefitDesks, MailDesks,
              WizardDesks, TestDesks, FormDesks, InspectionDesks,
              BenefitOps

\* No desk is both of the host and another's.
LEMMA WizardApart ==
    ASSUME desk \in WizardDesks
    PROVE  desk \notin FeatureDesks \cup SettingsDesks \cup CatalogDesks \cup
                            BenefitDesks \cup MailDesks \cup
                            StorageDesks \cup TestDesks \cup
                            FormDesks \cup InspectionDesks
  <1>1. "deploy" \in desk
    BY DEF WizardDesks
  <1> QED
    BY <1>1 DEF FeatureDesks, SettingsDesks, CatalogDesks, BenefitDesks, MailDesks,
              StorageDesks, TestDesks, FormDesks, InspectionDesks,
              BenefitOps, StorageOps, Writers

\* No desk is both of the checkout and another's.
LEMMA TestApart ==
    ASSUME desk \in TestDesks
    PROVE  desk \notin FeatureDesks \cup SettingsDesks \cup CatalogDesks \cup
                            BenefitDesks \cup MailDesks \cup
                            StorageDesks \cup WizardDesks
                            \cup FormDesks \cup
                            InspectionDesks
  <1>1. "fullTest" \in desk
    BY DEF TestDesks
  <1> QED
    BY <1>1 DEF FeatureDesks, SettingsDesks, CatalogDesks, BenefitDesks, MailDesks,
              StorageDesks, WizardDesks, FormDesks, InspectionDesks,
              BenefitOps, StorageOps, Writers

\* No desk is both of the upload form and another's.
LEMMA FormApart ==
    ASSUME desk \in FormDesks
    PROVE  desk \notin FeatureDesks \cup SettingsDesks \cup CatalogDesks \cup
                            BenefitDesks \cup MailDesks \cup
                            StorageDesks \cup WizardDesks
                            \cup TestDesks \cup
                            InspectionDesks
  <1>1. "form" \in desk
    BY DEF FormDesks
  <1> QED
    BY <1>1 DEF FeatureDesks, SettingsDesks, CatalogDesks, BenefitDesks, MailDesks,
              StorageDesks, WizardDesks, TestDesks, InspectionDesks,
              BenefitOps, StorageOps, Writers

\* No desk is both of the inspection and another's.
LEMMA InspectionApart ==
    ASSUME desk \in InspectionDesks
    PROVE  desk \notin FeatureDesks \cup SettingsDesks \cup CatalogDesks \cup
                            BenefitDesks \cup MailDesks \cup
                            StorageDesks \cup WizardDesks
                            \cup TestDesks \cup FormDesks
  <1>1. "inspection" \in desk
    BY DEF InspectionDesks
  <1> QED
    BY <1>1 DEF FeatureDesks, SettingsDesks, CatalogDesks, BenefitDesks, MailDesks,
              StorageDesks, WizardDesks, TestDesks, FormDesks,
              BenefitOps, StorageOps, Writers

-----------------------------------------------------------------------------
\* Each behaviour is one of a module

\* The handlers that may be begun are those of the feature requests.
FeatureHandlers == desk \in FeatureDesks

\* At a desk of theirs a step is one of the feature requests; at another it leaves them alone.
LEMMA StepAtFeature ==
    ASSUME [DeskNext]_deskVars
    PROVE  /\ FeatureHandlers => FeatureHandlers' /\ [FeatureNext]_featureVars
           /\ ~FeatureHandlers => ~FeatureHandlers' /\ UNCHANGED features
  <1>1. CASE DeskNext
    BY <1>1, FeatureApart DEF DeskNext, AtTheFeatures, AtTheSettings, AtTheCatalog, AtTheBenefits, AtTheFeed, AtTheDirectory, AtTheWizard, AtTheTest, AtTheForm, AtTheInspection, FeatureHandlers, features
  <1>2. CASE UNCHANGED deskVars
    BY <1>2 DEF deskVars, FeatureHandlers, features, featureVars
  <1> QED
    BY <1>1, <1>2

\* A behaviour at a desk of theirs is one of their module's; at another they stay
\* as they were.
LEMMA BehaviourFeature ==
    /\ FeatureHandlers /\ DeskSpec => FeatureSpec /\ [](FeatureHandlers)
    /\ ~FeatureHandlers /\ DeskSpec => [](~FeatureHandlers /\ FeatureInit)
  <1>1. FeatureHandlers /\ DeskInit => FeatureInit /\ job = Nothing /\ mishaps = 0
    BY DEF DeskInit, FeatureHandlers
  <1>2. ~FeatureHandlers /\ DeskInit => FeatureInit
    BY DEF DeskInit, FeatureHandlers
  <1>3. ~FeatureHandlers /\ FeatureInit /\ [DeskNext]_deskVars => (~FeatureHandlers /\ FeatureInit)'
    BY StepAtFeature DEF FeatureInit, features
  <1>4. FeatureHandlers /\ [DeskNext]_deskVars => FeatureHandlers' /\ [FeatureNext]_featureVars
    BY StepAtFeature
  <1> QED
    BY <1>1, <1>2, <1>3, <1>4, PTL DEF DeskSpec, FeatureSpec

\* The handlers that may be begun are those of the settings.
SettingsHandlers == desk \in SettingsDesks

\* At a desk of theirs a step is one of the settings; at another it leaves them alone.
LEMMA StepAtSettings ==
    ASSUME [DeskNext]_deskVars
    PROVE  /\ SettingsHandlers => SettingsHandlers' /\ [SettingsNext]_settingsVars
           /\ ~SettingsHandlers => ~SettingsHandlers' /\ UNCHANGED settings
  <1>1. CASE DeskNext
    BY <1>1, SettingsApart DEF DeskNext, AtTheFeatures, AtTheSettings, AtTheCatalog, AtTheBenefits, AtTheFeed, AtTheDirectory, AtTheWizard, AtTheTest, AtTheForm, AtTheInspection, SettingsHandlers, settings
  <1>2. CASE UNCHANGED deskVars
    BY <1>2 DEF deskVars, SettingsHandlers, settings, settingsVars
  <1> QED
    BY <1>1, <1>2

\* A behaviour at a desk of theirs is one of their module's; at another they stay
\* as they were.
LEMMA BehaviourSettings ==
    /\ SettingsHandlers /\ DeskSpec => SettingsSpec /\ [](SettingsHandlers)
    /\ ~SettingsHandlers /\ DeskSpec => [](~SettingsHandlers /\ SettingsInit)
  <1>1. SettingsHandlers /\ DeskInit => SettingsInit /\ job = Nothing /\ mishaps = 0
    BY DEF DeskInit, SettingsHandlers
  <1>2. ~SettingsHandlers /\ DeskInit => SettingsInit
    BY DEF DeskInit, SettingsHandlers
  <1>3. ~SettingsHandlers /\ SettingsInit /\ [DeskNext]_deskVars => (~SettingsHandlers /\ SettingsInit)'
    BY StepAtSettings DEF SettingsInit, settings
  <1>4. SettingsHandlers /\ [DeskNext]_deskVars => SettingsHandlers' /\ [SettingsNext]_settingsVars
    BY StepAtSettings
  <1> QED
    BY <1>1, <1>2, <1>3, <1>4, PTL DEF DeskSpec, SettingsSpec

\* The handlers that may be begun are those of the catalog.
CatalogHandlers == desk \in CatalogDesks

\* At a desk of theirs a step is one of the catalog; at another it leaves them alone.
LEMMA StepAtCatalog ==
    ASSUME [DeskNext]_deskVars
    PROVE  /\ CatalogHandlers => CatalogHandlers' /\ [CatalogNext]_catalogVars
           /\ ~CatalogHandlers => ~CatalogHandlers' /\ UNCHANGED catalog
  <1>1. CASE DeskNext
    BY <1>1, CatalogApart DEF DeskNext, AtTheFeatures, AtTheSettings, AtTheCatalog, AtTheBenefits, AtTheFeed, AtTheDirectory, AtTheWizard, AtTheTest, AtTheForm, AtTheInspection, CatalogHandlers, catalog
  <1>2. CASE UNCHANGED deskVars
    BY <1>2 DEF deskVars, CatalogHandlers, catalog, catalogVars
  <1> QED
    BY <1>1, <1>2

\* A behaviour at a desk of theirs is one of their module's; at another they stay
\* as they were.
LEMMA BehaviourCatalog ==
    /\ CatalogHandlers /\ DeskSpec => CatalogSpec /\ [](CatalogHandlers)
    /\ ~CatalogHandlers /\ DeskSpec => [](~CatalogHandlers /\ CatalogInit)
  <1>1. CatalogHandlers /\ DeskInit => CatalogInit /\ job = Nothing /\ mishaps = 0
    BY DEF DeskInit, CatalogHandlers
  <1>2. ~CatalogHandlers /\ DeskInit => CatalogInit
    BY DEF DeskInit, CatalogHandlers
  <1>3. ~CatalogHandlers /\ CatalogInit /\ [DeskNext]_deskVars => (~CatalogHandlers /\ CatalogInit)'
    BY StepAtCatalog DEF CatalogInit, catalog
  <1>4. CatalogHandlers /\ [DeskNext]_deskVars => CatalogHandlers' /\ [CatalogNext]_catalogVars
    BY StepAtCatalog
  <1> QED
    BY <1>1, <1>2, <1>3, <1>4, PTL DEF DeskSpec, CatalogSpec

\* The handlers that may be begun are those of the benefits.
BenefitHandlers == desk \in BenefitDesks

\* At a desk of theirs a step is one of the benefits; at another it leaves them alone.
LEMMA StepAtBenefit ==
    ASSUME [DeskNext]_deskVars
    PROVE  /\ BenefitHandlers => BenefitHandlers' /\ [BenefitNext]_benefitVars
           /\ ~BenefitHandlers => ~BenefitHandlers' /\ UNCHANGED benefits
  <1>1. CASE DeskNext
    BY <1>1, BenefitApart DEF DeskNext, AtTheFeatures, AtTheSettings, AtTheCatalog, AtTheBenefits, AtTheFeed, AtTheDirectory, AtTheWizard, AtTheTest, AtTheForm, AtTheInspection, BenefitHandlers, benefits
  <1>2. CASE UNCHANGED deskVars
    BY <1>2 DEF deskVars, BenefitHandlers, benefits, benefitVars
  <1> QED
    BY <1>1, <1>2

\* A behaviour at a desk of theirs is one of their module's; at another they stay
\* as they were.
LEMMA BehaviourBenefit ==
    /\ BenefitHandlers /\ DeskSpec => BenefitSpec /\ [](BenefitHandlers)
    /\ ~BenefitHandlers /\ DeskSpec => [](~BenefitHandlers /\ BenefitInit)
  <1>1. BenefitHandlers /\ DeskInit => BenefitInit /\ job = Nothing /\ mishaps = 0
    BY DEF DeskInit, BenefitHandlers
  <1>2. ~BenefitHandlers /\ DeskInit => BenefitInit
    BY DEF DeskInit, BenefitHandlers
  <1>3. ~BenefitHandlers /\ BenefitInit /\ [DeskNext]_deskVars => (~BenefitHandlers /\ BenefitInit)'
    BY StepAtBenefit DEF BenefitInit, benefits
  <1>4. BenefitHandlers /\ [DeskNext]_deskVars => BenefitHandlers' /\ [BenefitNext]_benefitVars
    BY StepAtBenefit
  <1> QED
    BY <1>1, <1>2, <1>3, <1>4, PTL DEF DeskSpec, BenefitSpec

\* The handlers that may be begun are those of the feed.
MailHandlers == desk \in MailDesks

\* At a desk of theirs a step is one of the feed; at another it leaves them alone.
LEMMA StepAtMail ==
    ASSUME [DeskNext]_deskVars
    PROVE  /\ MailHandlers => MailHandlers' /\ [MailNext]_mailVars
           /\ ~MailHandlers => ~MailHandlers' /\ UNCHANGED feed
  <1>1. CASE DeskNext
    BY <1>1, MailApart DEF DeskNext, AtTheFeatures, AtTheSettings, AtTheCatalog, AtTheBenefits, AtTheFeed, AtTheDirectory, AtTheWizard, AtTheTest, AtTheForm, AtTheInspection, MailHandlers, feed
  <1>2. CASE UNCHANGED deskVars
    BY <1>2 DEF deskVars, MailHandlers, feed, mailVars
  <1> QED
    BY <1>1, <1>2

\* A behaviour at a desk of theirs is one of their module's; at another they stay
\* as they were.
LEMMA BehaviourMail ==
    /\ MailHandlers /\ DeskSpec => MailSpec /\ [](MailHandlers)
    /\ ~MailHandlers /\ DeskSpec => [](~MailHandlers /\ MailInit)
  <1>1. MailHandlers /\ DeskInit => MailInit /\ job = Nothing /\ mishaps = 0
    BY DEF DeskInit, MailHandlers
  <1>2. ~MailHandlers /\ DeskInit => MailInit
    BY DEF DeskInit, MailHandlers
  <1>3. ~MailHandlers /\ MailInit /\ [DeskNext]_deskVars => (~MailHandlers /\ MailInit)'
    BY StepAtMail DEF MailInit, feed
  <1>4. MailHandlers /\ [DeskNext]_deskVars => MailHandlers' /\ [MailNext]_mailVars
    BY StepAtMail
  <1> QED
    BY <1>1, <1>2, <1>3, <1>4, PTL DEF DeskSpec, MailSpec

\* The handlers that may be begun are those of the directory.
StorageHandlers == desk \in StorageDesks

\* At a desk of theirs a step is one of the directory; at another it leaves them alone.
LEMMA StepAtStorage ==
    ASSUME [DeskNext]_deskVars
    PROVE  /\ StorageHandlers => StorageHandlers' /\ [StorageNext]_storageVars
           /\ ~StorageHandlers => ~StorageHandlers' /\ UNCHANGED directory
  <1>1. CASE DeskNext
    BY <1>1, StorageApart DEF DeskNext, AtTheFeatures, AtTheSettings, AtTheCatalog, AtTheBenefits, AtTheFeed, AtTheDirectory, AtTheWizard, AtTheTest, AtTheForm, AtTheInspection, StorageHandlers, directory
  <1>2. CASE UNCHANGED deskVars
    BY <1>2 DEF deskVars, StorageHandlers, directory, storageVars
  <1> QED
    BY <1>1, <1>2

\* A behaviour at a desk of theirs is one of their module's; at another they stay
\* as they were.
LEMMA BehaviourStorage ==
    /\ StorageHandlers /\ DeskSpec => StorageSpec /\ [](StorageHandlers)
    /\ ~StorageHandlers /\ DeskSpec => [](~StorageHandlers /\ StorageInit)
  <1>1. StorageHandlers /\ DeskInit => StorageInit /\ job = Nothing /\ mishaps = 0
    BY DEF DeskInit, StorageHandlers
  <1>2. ~StorageHandlers /\ DeskInit => StorageInit
    BY DEF DeskInit, StorageHandlers
  <1>3. ~StorageHandlers /\ StorageInit /\ [DeskNext]_deskVars => (~StorageHandlers /\ StorageInit)'
    BY StepAtStorage DEF StorageInit, directory
  <1>4. StorageHandlers /\ [DeskNext]_deskVars => StorageHandlers' /\ [StorageNext]_storageVars
    BY StepAtStorage
  <1> QED
    BY <1>1, <1>2, <1>3, <1>4, PTL DEF DeskSpec, StorageSpec

\* The handlers that may be begun are those of the host.
WizardHandlers == desk \in WizardDesks

\* At a desk of theirs a step is one of the host; at another it leaves them alone.
LEMMA StepAtWizard ==
    ASSUME [DeskNext]_deskVars
    PROVE  /\ WizardHandlers => WizardHandlers' /\ [WizardNext]_wizardVars
           /\ ~WizardHandlers => ~WizardHandlers' /\ UNCHANGED host
  <1>1. CASE DeskNext
    BY <1>1, WizardApart DEF DeskNext, AtTheFeatures, AtTheSettings, AtTheCatalog, AtTheBenefits, AtTheFeed, AtTheDirectory, AtTheWizard, AtTheTest, AtTheForm, AtTheInspection, WizardHandlers, host
  <1>2. CASE UNCHANGED deskVars
    BY <1>2 DEF deskVars, WizardHandlers, host, wizardVars
  <1> QED
    BY <1>1, <1>2

\* A behaviour at a desk of theirs is one of their module's; at another they stay
\* as they were.
LEMMA BehaviourWizard ==
    /\ WizardHandlers /\ DeskSpec => WizardSpec /\ [](WizardHandlers)
    /\ ~WizardHandlers /\ DeskSpec => [](~WizardHandlers /\ WizardInit)
  <1>1. WizardHandlers /\ DeskInit => WizardInit /\ job = Nothing /\ mishaps = 0
    BY DEF DeskInit, WizardHandlers
  <1>2. ~WizardHandlers /\ DeskInit => WizardInit
    BY DEF DeskInit, WizardHandlers
  <1>3. ~WizardHandlers /\ WizardInit /\ [DeskNext]_deskVars => (~WizardHandlers /\ WizardInit)'
    BY StepAtWizard DEF WizardInit, host
  <1>4. WizardHandlers /\ [DeskNext]_deskVars => WizardHandlers' /\ [WizardNext]_wizardVars
    BY StepAtWizard
  <1> QED
    BY <1>1, <1>2, <1>3, <1>4, PTL DEF DeskSpec, WizardSpec

\* The handlers that may be begun are those of the checkout.
TestHandlers == desk \in TestDesks

\* At a desk of theirs a step is one of the checkout; at another it leaves them alone.
LEMMA StepAtTest ==
    ASSUME [DeskNext]_deskVars
    PROVE  /\ TestHandlers => TestHandlers' /\ [FullTestNext]_<<job, mishaps, testVars>>
           /\ ~TestHandlers => ~TestHandlers' /\ UNCHANGED checkout
  <1>1. CASE DeskNext
    BY <1>1, TestApart DEF DeskNext, AtTheFeatures, AtTheSettings, AtTheCatalog, AtTheBenefits, AtTheFeed, AtTheDirectory, AtTheWizard, AtTheTest, AtTheForm, AtTheInspection, TestHandlers, checkout
  <1>2. CASE UNCHANGED deskVars
    BY <1>2 DEF deskVars, TestHandlers, checkout, testVars
  <1> QED
    BY <1>1, <1>2

\* A behaviour at a desk of theirs is one of their module's; at another they stay
\* as they were.
LEMMA BehaviourTest ==
    /\ TestHandlers /\ DeskSpec => FullTestSpec /\ [](TestHandlers)
    /\ ~TestHandlers /\ DeskSpec => [](~TestHandlers /\ Untested)
  <1>1. TestHandlers /\ DeskInit => FullTestInit /\ job = Nothing /\ mishaps = 0
    BY DEF DeskInit, TestHandlers
  <1>2. ~TestHandlers /\ DeskInit => Untested
    BY DEF DeskInit, TestHandlers
  <1>3. ~TestHandlers /\ Untested /\ [DeskNext]_deskVars => (~TestHandlers /\ Untested)'
    BY StepAtTest DEF Untested, checkout, testVars
  <1>4. TestHandlers /\ [DeskNext]_deskVars => TestHandlers' /\ [FullTestNext]_<<job, mishaps, testVars>>
    BY StepAtTest
  <1> QED
    BY <1>1, <1>2, <1>3, <1>4, PTL DEF DeskSpec, FullTestSpec

\* The handlers that may be begun are those of the upload form.
FormHandlers == desk \in FormDesks

\* At a desk of theirs a step is one of the upload form; at another it leaves them alone.
LEMMA StepAtForm ==
    ASSUME [DeskNext]_deskVars
    PROVE  /\ FormHandlers => FormHandlers' /\ [FormNext]_formVars
           /\ ~FormHandlers => ~FormHandlers' /\ UNCHANGED browser
  <1>1. CASE DeskNext
    BY <1>1, FormApart DEF DeskNext, AtTheFeatures, AtTheSettings, AtTheCatalog, AtTheBenefits, AtTheFeed, AtTheDirectory, AtTheWizard, AtTheTest, AtTheForm, AtTheInspection, FormHandlers, browser
  <1>2. CASE UNCHANGED deskVars
    BY <1>2 DEF deskVars, FormHandlers, browser, formVars
  <1> QED
    BY <1>1, <1>2

\* A behaviour at a desk of theirs is one of their module's; at another they stay
\* as they were.
LEMMA BehaviourForm ==
    /\ FormHandlers /\ DeskSpec => FormSpec /\ [](FormHandlers)
    /\ ~FormHandlers /\ DeskSpec => [](~FormHandlers /\ FormInit)
  <1>1. FormHandlers /\ DeskInit => FormInit
    BY DEF DeskInit, FormHandlers
  <1>2. ~FormHandlers /\ DeskInit => FormInit
    BY DEF DeskInit, FormHandlers
  <1>3. ~FormHandlers /\ FormInit /\ [DeskNext]_deskVars => (~FormHandlers /\ FormInit)'
    BY StepAtForm DEF FormInit, browser, formVars
  <1>4. FormHandlers /\ [DeskNext]_deskVars => FormHandlers' /\ [FormNext]_formVars
    BY StepAtForm
  <1> QED
    BY <1>1, <1>2, <1>3, <1>4, PTL DEF DeskSpec, FormSpec

\* The handlers that may be begun are those of the inspection.
InspectionHandlers == desk \in InspectionDesks

\* At a desk of theirs a step is one of the inspection; at another it leaves them alone.
LEMMA StepAtInspection ==
    ASSUME [DeskNext]_deskVars
    PROVE  /\ InspectionHandlers => InspectionHandlers' /\ [inspect]_<<upload, inspection>>
           /\ ~InspectionHandlers => ~InspectionHandlers' /\ UNCHANGED inspected
  <1>1. CASE DeskNext
    BY <1>1, InspectionApart DEF DeskNext, AtTheFeatures, AtTheSettings, AtTheCatalog, AtTheBenefits, AtTheFeed, AtTheDirectory, AtTheWizard, AtTheTest, AtTheForm, AtTheInspection, InspectionHandlers, inspected
  <1>2. CASE UNCHANGED deskVars
    BY <1>2 DEF deskVars, InspectionHandlers, inspected
  <1> QED
    BY <1>1, <1>2

\* A behaviour at a desk of theirs is one of their module's; at another they stay
\* as they were.
LEMMA BehaviourInspection ==
    /\ InspectionHandlers /\ DeskSpec => InspectionSpec /\ [](InspectionHandlers)
    /\ ~InspectionHandlers /\ DeskSpec => [](~InspectionHandlers /\ NothingLooked)
  <1>1. InspectionHandlers /\ DeskInit => InspectionInit
    BY DEF DeskInit, InspectionHandlers
  <1>2. ~InspectionHandlers /\ DeskInit => NothingLooked
    BY DEF DeskInit, InspectionHandlers, NothingLooked
  <1>3. ~InspectionHandlers /\ NothingLooked /\ [DeskNext]_deskVars => (~InspectionHandlers /\ NothingLooked)'
    BY StepAtInspection DEF NothingLooked, inspected
  <1>4. InspectionHandlers /\ [DeskNext]_deskVars => InspectionHandlers' /\ [inspect]_<<upload, inspection>>
    BY StepAtInspection
  <1> QED
    BY <1>1, <1>2, <1>3, <1>4, PTL DEF DeskSpec, InspectionSpec

-----------------------------------------------------------------------------
\* Who is in flight

\* Every handler in flight is of `ops`, and none but the full test is at its suites.
Only(ops) ==
    \A q \in DOMAIN job :
       job[q].op \in ops /\ (job[q].pc = "suites" => "fullTest" \in ops)

\* A save comes and goes, and nothing else is begun beside it.
OnlySaves == Only({"saveSettings"})

\* One save is put in the table.
LEMMA SaveSettingsPut ==
    ASSUME OnlySaves, NEW q, NEW fields, NEW input, saveSettings(q, fields, input)
    PROVE  OnlySaves'
  <1>1. PICK x : Begin(q, x) /\ x.op = "saveSettings" /\ x.pc # "suites"
    BY DEF saveSettings
  <1> QED
    BY <1>1 DEF Begin, Put, OnlySaves, Only

\* A save goes on as a save, or ends.
LEMMA SaveSettingsGoes ==
    ASSUME SettingsInv, OnlySaves, NEW q \in DOMAIN job,
           \/ insertRow(q) \/ lockRow(q) \/ updateSettings(q) \/ recordSettings(q)
           \/ commitSettings(q) \/ rollback(q)
    PROVE  OnlySaves'
  <1>1. CASE End(q)
    BY <1>1 DEF End, Drop, Restrict, OnlySaves, Only
  <1>2. job[q] \in SaveJob /\ job[q].op = "saveSettings"
    BY DEF SettingsInv, SavesHold, SaveHolds, InFlight, OnlySaves, Only
  <1>3. ASSUME NEW x, job' = [job EXCEPT ![q] = x], x.op = "saveSettings", x.pc # "suites"
        PROVE  OnlySaves'
    BY <1>3 DEF OnlySaves, Only
  <1>4. ASSUME NEW pc, pc # "suites", GoTo(q, pc)
        PROVE  OnlySaves'
    <2>1. PICK x : x = [job[q] EXCEPT !.pc = pc]
      OBVIOUS
    <2>2. x.op = "saveSettings" /\ x.pc = pc
      BY <1>2, <2>1 DEF SaveJob
    <2>3. job' = [job EXCEPT ![q] = x]
      BY <1>4, <2>1 DEF GoTo
    <2> QED
      BY <1>3, <1>4, <2>2, <2>3
  <1>5. ASSUME NEW pc, pc # "suites",
               \/ job' = [job EXCEPT ![q].pc = pc, ![q].inserted = TRUE]
               \/ job' = [job EXCEPT ![q].pc = pc, ![q].before = FoundRow]
        PROVE  OnlySaves'
    <2>1. PICK x : job' = [job EXCEPT ![q] = x]
                   /\ (\/ x = [job[q] EXCEPT !.pc = pc, !.inserted = TRUE]
                       \/ x = [job[q] EXCEPT !.pc = pc, !.before = FoundRow])
      BY <1>5
    <2>2. x.op = "saveSettings" /\ x.pc = pc
      BY <1>2, <2>1 DEF SaveJob
    <2> QED
      BY <1>3, <1>5, <2>1, <2>2
  <1> QED
    BY <1>1, <1>4, <1>5
    DEF insertRow, lockRow, updateSettings, recordSettings, commitSettings, rollback

\* At the settings' desk nothing else is in flight.
LEMMA OnlySavesThere == SettingsSpec => []OnlySaves
  <1>1. job = Nothing => OnlySaves
    BY DEF Nothing, OnlySaves, Only
  <1>2. SettingsInv /\ OnlySaves /\ [SettingsNext]_settingsVars => OnlySaves'
    <2> SUFFICES ASSUME SettingsInv, OnlySaves, [SettingsNext]_settingsVars
                 PROVE  OnlySaves'
      OBVIOUS
    <2>1. CASE UNCHANGED settingsVars
      BY <2>1 DEF settingsVars, OnlySaves, Only
    <2>2. CASE crashSettings
      BY <2>2 DEF crashSettings, Crash, Nothing, OnlySaves, Only
    <2> QED
      BY <2>1, <2>2, SaveSettingsPut, SaveSettingsGoes DEF SettingsNext
  <1> QED
    BY <1>1, <1>2, SettingsInvariant, PTL DEF SettingsSpec

\* Everything in flight is of the desk that it is at.
OneKind ==
    /\ FeatureHandlers  => Only(FeatureOps)
    /\ SettingsHandlers => Only({"saveSettings"})
    /\ CatalogHandlers  => Only(CatalogOps)
    /\ BenefitHandlers  => Only(BenefitOps)
    /\ MailHandlers     => Only(MailOps)
    /\ StorageHandlers  => Only(StorageOps)
    /\ WizardHandlers   => Only({"deploy"})
    /\ TestHandlers     => Only(TestOps)
    /\ FormHandlers \/ InspectionHandlers => job = Nothing

\* A behaviour is at one of the ten.
SomeDesk ==
    \/ FeatureHandlers \/ SettingsHandlers \/ CatalogHandlers \/ BenefitHandlers
    \/ MailHandlers \/ StorageHandlers \/ WizardHandlers \/ TestHandlers
    \/ FormHandlers \/ InspectionHandlers

\* What is in flight at a desk is what its module's invariant says.
LEMMA OnlyTheirs ==
    /\ FeaturesInv => Only(FeatureOps)
    /\ OnlySaves => Only({"saveSettings"})
    /\ CatalogInv => Only(CatalogOps)
    /\ BenefitInv => Only(BenefitOps)
    /\ MailInv => Only(MailOps)
    /\ StorageTyped => Only(StorageOps)
    /\ WizardInv => Only({"deploy"})
    /\ TestsInFlight => Only(TestOps)
  <1>1. FeaturesInv => Only(FeatureOps)
    BY DEF FeaturesInv, FeatureJobsHold, FeatureJob, Only
  <1>2. OnlySaves => Only({"saveSettings"})
    BY DEF OnlySaves
  <1>3. CatalogInv => Only(CatalogOps)
    BY DEF CatalogInv, AllAtWorkHold, WorkHolds, Only
  <1>4. BenefitInv => Only(BenefitOps)
    BY DEF BenefitInv, BenefitJobsHold, BenefitJob, Only
  <1>5. MailInv => Only(MailOps)
    BY DEF MailInv, CopiesHold, MailJob, Only
  <1>6. StorageTyped => Only(StorageOps)
    BY DEF StorageTyped, HandlerTyped, StorageJob, Only
  <1>7. WizardInv => Only({"deploy"})
    BY DEF WizardInv, WizardsHold, WizardJob, Only
  <1>8. TestsInFlight => Only(TestOps)
    BY DEF TestsInFlight, TestOps, Only
  <1> QED
    BY <1>1, <1>2, <1>3, <1>4, <1>5, <1>6, <1>7, <1>8

\* Where no handlers are begun, none is in flight.
NoHandlers == FormHandlers \/ InspectionHandlers

\* None is.
EmptyTable == job = Nothing

\* The form and the inspection leave the table of handlers alone.
LEMMA NothingInFlight == DeskSpec => [](NoHandlers => EmptyTable)
  <1>1. DeskInit => EmptyTable
    BY DEF DeskInit, EmptyTable
  <1>2. NoHandlers /\ EmptyTable /\ [DeskNext]_deskVars => NoHandlers' /\ EmptyTable'
    <2> SUFFICES ASSUME NoHandlers, EmptyTable, [DeskNext]_deskVars
                 PROVE  NoHandlers' /\ EmptyTable'
      OBVIOUS
    <2>1. desk' = desk
      BY DEF DeskNext, deskVars
    <2>2. CASE DeskNext
      BY <2>1, <2>2, FormApart, InspectionApart
      DEF DeskNext, AtTheFeatures, AtTheSettings, AtTheCatalog, AtTheBenefits, AtTheFeed,
          AtTheDirectory, AtTheWizard, AtTheTest, AtTheForm, AtTheInspection,
          NoHandlers, FormHandlers, InspectionHandlers, EmptyTable
    <2>3. CASE UNCHANGED deskVars
      BY <2>1, <2>3 DEF deskVars, NoHandlers, FormHandlers, InspectionHandlers, EmptyTable
    <2> QED
      BY <2>2, <2>3
  <1>3. ~NoHandlers /\ [DeskNext]_deskVars => ~NoHandlers'
    BY DEF DeskNext, deskVars, NoHandlers, FormHandlers, InspectionHandlers
  <1> QED
    BY <1>1, <1>2, <1>3, PTL DEF DeskSpec

\* A behaviour stays at its desk.
LEMMA AtSomeDesk == DeskSpec => []SomeDesk
  <1>1. DeskInit => SomeDesk
    BY DEF DeskInit, SomeDesk, FeatureHandlers, SettingsHandlers, CatalogHandlers,
           BenefitHandlers, MailHandlers, StorageHandlers, WizardHandlers, TestHandlers,
           FormHandlers, InspectionHandlers
  <1>2. SomeDesk /\ [DeskNext]_deskVars => SomeDesk'
    BY DEF DeskNext, deskVars, SomeDesk, FeatureHandlers, SettingsHandlers, CatalogHandlers,
           BenefitHandlers, MailHandlers, StorageHandlers, WizardHandlers, TestHandlers,
           FormHandlers, InspectionHandlers
  <1> QED
    BY <1>1, <1>2, PTL DEF DeskSpec

\* So there is one kind of handler in flight.
LEMMA AllOfOneKind == DeskSpec => []OneKind
  <1> DEFINE F == FeatureHandlers  => Only(FeatureOps)
             S == SettingsHandlers => Only({"saveSettings"})
             C == CatalogHandlers  => Only(CatalogOps)
             B == BenefitHandlers  => Only(BenefitOps)
             M == MailHandlers     => Only(MailOps)
             D == StorageHandlers  => Only(StorageOps)
             W == WizardHandlers   => Only({"deploy"})
             T == TestHandlers     => Only(TestOps)
             N == NoHandlers       => job = Nothing
  <1> HIDE DEF F, S, C, B, M, D, W, T, N
  <1>1. DeskSpec => []F
    <2>1. ~FeatureHandlers \/ FeaturesInv => F
      BY OnlyTheirs DEF F
    <2> QED
      BY <2>1, BehaviourFeature, FeatureInvariant, PTL
  <1>2. DeskSpec => []S
    <2>1. ~SettingsHandlers \/ OnlySaves => S
      BY OnlyTheirs DEF S
    <2> QED
      BY <2>1, BehaviourSettings, OnlySavesThere, PTL
  <1>3. DeskSpec => []C
    <2>1. ~CatalogHandlers \/ CatalogInv => C
      BY OnlyTheirs DEF C
    <2> QED
      BY <2>1, BehaviourCatalog, CatalogInvariant, PTL
  <1>4. DeskSpec => []B
    <2>1. ~BenefitHandlers \/ BenefitInv => B
      BY OnlyTheirs DEF B
    <2> QED
      BY <2>1, BehaviourBenefit, BenefitInvariant, PTL
  <1>5. DeskSpec => []M
    <2>1. ~MailHandlers \/ MailInv => M
      BY OnlyTheirs DEF M
    <2> QED
      BY <2>1, BehaviourMail, MailInvariant, PTL
  <1>6. DeskSpec => []D
    <2>1. ~StorageHandlers \/ StorageTyped => D
      BY OnlyTheirs DEF D
    <2> QED
      BY <2>1, BehaviourStorage, StorageTypedInvariant, PTL
  <1>7. DeskSpec => []W
    <2>1. ~WizardHandlers \/ WizardInv => W
      BY OnlyTheirs DEF W
    <2> QED
      BY <2>1, BehaviourWizard, WizardInvariant, PTL
  <1>8. DeskSpec => []T
    <2>1. ~TestHandlers \/ TestsInFlight => T
      BY OnlyTheirs DEF T
    <2> QED
      BY <2>1, BehaviourTest, OnlyTests, PTL
  <1>9. DeskSpec => []N
    <2>1. (NoHandlers => EmptyTable) => N
      BY DEF N, EmptyTable
    <2> QED
      BY <2>1, NothingInFlight, PTL
  <1>10. F /\ S /\ C /\ B /\ M /\ D /\ W /\ T /\ N => OneKind
    BY DEF OneKind, F, S, C, B, M, D, W, T, N, NoHandlers
  <1> QED
    BY <1>1, <1>2, <1>3, <1>4, <1>5, <1>6, <1>7, <1>8, <1>9, <1>10, PTL

\* No operation is of two kinds.
LEMMA OpsApart ==
    ASSUME NEW op
    PROVE  /\ op \in FeatureOps => op \notin CatalogOps \cup BenefitOps \cup MailOps
                                        \cup StorageOps \cup TestOps
           /\ op \in CatalogOps => op \notin BenefitOps \cup MailOps \cup StorageOps \cup TestOps
           /\ op \in BenefitOps => op \notin MailOps \cup StorageOps \cup TestOps
           /\ op \in MailOps => op \notin StorageOps \cup TestOps
           /\ op \in StorageOps => op \notin TestOps
           /\ op \in {"saveSettings", "deploy"} =>
                 op \notin FeatureOps \cup CatalogOps \cup BenefitOps \cup MailOps
                       \cup StorageOps \cup TestOps
  BY DEF FeatureOps, CatalogOps, BenefitOps, MailOps, StorageOps, Writers, TestOps

\* Nothing is in flight of what is not begun at the desk; at its suites there is
\* only a full test.
LEMMA QuietElsewhere ==
    ASSUME SomeDesk, OneKind
    PROVE  /\ ~FeatureHandlers  => Quiet(FeatureOps)
           /\ ~SettingsHandlers => Quiet({"saveSettings"})
           /\ ~CatalogHandlers  => Quiet(CatalogOps)
           /\ ~BenefitHandlers  => Quiet(BenefitOps)
           /\ ~MailHandlers     => Quiet(MailOps)
           /\ ~StorageHandlers  => Quiet(StorageOps)
           /\ ~WizardHandlers   => Quiet({"deploy"})
           /\ ~TestHandlers     => \A q \in DOMAIN job : job[q].pc # "suites"
  <1>1. ASSUME NEW q \in DOMAIN job
        PROVE  /\ job[q].op \in FeatureOps       => FeatureHandlers
               /\ job[q].op \in {"saveSettings"} => SettingsHandlers
               /\ job[q].op \in CatalogOps       => CatalogHandlers
               /\ job[q].op \in BenefitOps       => BenefitHandlers
               /\ job[q].op \in MailOps          => MailHandlers
               /\ job[q].op \in StorageOps       => StorageHandlers
               /\ job[q].op \in {"deploy"}       => WizardHandlers
               /\ job[q].pc = "suites"           => TestHandlers
    <2>1. CASE FormHandlers \/ InspectionHandlers
      BY <2>1 DEF OneKind, Nothing
    <2>2. CASE TestHandlers
      <3>1. job[q].op \in TestOps
        BY <2>2 DEF OneKind, Only
      <3>2. job[q].op \notin {"saveSettings", "deploy"}
        BY <3>1 DEF TestOps
      <3> QED
        BY <2>2, <3>1, <3>2, OpsApart
    <2>3. ASSUME NEW ops, Only(ops), "fullTest" \notin ops
          PROVE  job[q].op \in ops /\ job[q].pc # "suites"
      BY <2>3 DEF Only
    <2>4. "fullTest" \notin FeatureOps \cup {"saveSettings"} \cup CatalogOps \cup BenefitOps
                            \cup MailOps \cup StorageOps \cup {"deploy"}
      BY DEF FeatureOps, CatalogOps, BenefitOps, MailOps, StorageOps, Writers
    <2>5. CASE FeatureHandlers \/ SettingsHandlers \/ CatalogHandlers \/ BenefitHandlers
      BY <2>3, <2>4, <2>5, OpsApart DEF OneKind
    <2>6. CASE MailHandlers \/ StorageHandlers \/ WizardHandlers
      BY <2>3, <2>4, <2>6, OpsApart DEF OneKind
    <2> QED
      BY <2>1, <2>2, <2>5, <2>6 DEF SomeDesk
  <1> QED
    BY <1>1 DEF Quiet, InFlight

-----------------------------------------------------------------------------
\* What is not at the desk has its types, and keeps its promises

\* Rows of the database that nobody touches, while none of their handlers is in
\* flight: they are as they were at first.
LEMMA RowsAtRest ==
    /\ FeatureInit /\ Quiet(FeatureOps) => FeatureTypeOK
    /\ SettingsInit /\ Quiet({"saveSettings"}) => SettingsTypeOK
    /\ BenefitInit /\ Quiet(BenefitOps) => BenefitTypeOK
    /\ MailInit /\ Quiet(MailOps) => MailTypeOK
  <1>1. FeatureInit /\ Quiet(FeatureOps) => FeatureTypeOK
    BY DEF FeatureInit, Quiet, FeatureTypeOK, Nothing
  <1>2. SettingsInit /\ Quiet({"saveSettings"}) => SettingsTypeOK
    <2> SUFFICES ASSUME SettingsInit, Quiet({"saveSettings"})
                 PROVE  SettingsTypeOK
      OBVIOUS
    <2>1. DOMAIN settingsTrail = {} /\ env \in [SETTING_KEYS -> UNION {EnvSays(f) : f \in SETTING_KEYS}]
      BY DEF SettingsInit
    <2>2. settingsRow \in [SETTING_KEYS -> Stored] \cup {NoRow}
      BY DEF SettingsInit, Stored
    <2> QED
      BY <2>1, <2>2 DEF SettingsInit, Quiet, SettingsTypeOK
  <1>3. BenefitInit /\ Quiet(BenefitOps) => BenefitTypeOK
    BY DEF BenefitInit, Quiet, BenefitTypeOK, Nothing
  <1>4. MailInit /\ Quiet(MailOps) => MailTypeOK
    BY DEF MailInit, Quiet, MailTypeOK, Nothing
  <1> QED
    BY <1>1, <1>2, <1>3, <1>4

\* So the catalog, as it is seeded.
LEMMA CatalogAtRest ==
    ASSUME CatalogInit, Quiet(CatalogOps)
    PROVE  CatalogTypeOK
  <1>1. EntriesHold /\ ArrangedHold /\ catalogTrail = {}
    BY CatalogStart DEF CatalogInit
  <1>2. \A e \in DOMAIN entry : entry[e] \in Entry
    BY <1>1, SeededPlaces, EntryType
  <1> QED
    BY <1>1, <1>2 DEF EntriesHold, ArrangedHold, CatalogTypeOK, Quiet, Siblings

\* So the directory, as the models are filed in it.
LEMMA DirectoryAtRest ==
    ASSUME StorageInit, Quiet(StorageOps)
    PROVE  StorageTypeOK
  <1>1. disk \in [Keys -> (SUBSET Left) \ {{}}]
    BY DirectoryStart
  <1> QED
    BY <1>1, DirectoryStart DEF StorageTypeOK, Quiet, Now

\* So the host, as it was set up.
LEMMA HostAtRest ==
    ASSUME WizardInit, Quiet({"deploy"})
    PROVE  WizardTypeOK
  BY ReleasesStart DEF WizardInit, ReleasesHold, WizardTypeOK, Quiet

\* At whichever desk: every table, every handler in flight and every file keeps its
\* type, and the database its own rules.
THEOREM DeskTypes == DeskSpec => []DeskTypeOK
  <1> DEFINE F == Quiet(FeatureOps)
             S == Quiet({"saveSettings"})
             C == Quiet(CatalogOps)
             B == Quiet(BenefitOps)
             M == Quiet(MailOps)
             D == Quiet(StorageOps)
             W == Quiet({"deploy"})
  <1> HIDE DEF F, S, C, B, M, D, W
  <1>1. SomeDesk /\ OneKind =>
           /\ ~FeatureHandlers  => F
           /\ ~SettingsHandlers => S
           /\ ~CatalogHandlers  => C
           /\ ~BenefitHandlers  => B
           /\ ~MailHandlers     => M
           /\ ~StorageHandlers  => D
           /\ ~WizardHandlers   => W
    BY QuietElsewhere DEF F, S, C, B, M, D, W
  <1>2. /\ FeatureInit /\ F => FeatureTypeOK
        /\ SettingsInit /\ S => SettingsTypeOK
        /\ CatalogInit /\ C => CatalogTypeOK
        /\ BenefitInit /\ B => BenefitTypeOK
        /\ MailInit /\ M => MailTypeOK
        /\ StorageInit /\ D => StorageTypeOK
        /\ WizardInit /\ W => WizardTypeOK
    BY RowsAtRest, CatalogAtRest, DirectoryAtRest, HostAtRest DEF F, S, C, B, M, D, W
  <1>3. DeskSpec => []FeatureTypeOK
    BY <1>1, <1>2, BehaviourFeature, FeatureTypes, AtSomeDesk, AllOfOneKind, PTL
  <1>4. DeskSpec => []SettingsTypeOK
    BY <1>1, <1>2, BehaviourSettings, SettingsTypes, AtSomeDesk, AllOfOneKind, PTL
  <1>5. DeskSpec => []CatalogTypeOK
    BY <1>1, <1>2, BehaviourCatalog, CatalogTypes, AtSomeDesk, AllOfOneKind, PTL
  <1>6. DeskSpec => []BenefitTypeOK
    BY <1>1, <1>2, BehaviourBenefit, BenefitTypes, AtSomeDesk, AllOfOneKind, PTL
  <1>7. DeskSpec => []MailTypeOK
    BY <1>1, <1>2, BehaviourMail, MailTypes, AtSomeDesk, AllOfOneKind, PTL
  <1>8. DeskSpec => []StorageTypeOK
    BY <1>1, <1>2, BehaviourStorage, StorageTypes, AtSomeDesk, AllOfOneKind, PTL
  <1>9. DeskSpec => []WizardTypeOK
    BY <1>1, <1>2, BehaviourWizard, WizardTypes, AtSomeDesk, AllOfOneKind, PTL
  <1>10. FeatureTypeOK /\ SettingsTypeOK /\ CatalogTypeOK /\ BenefitTypeOK /\ MailTypeOK
         /\ StorageTypeOK /\ WizardTypeOK => DeskTypeOK
    BY DEF DeskTypeOK
  <1> QED
    BY <1>3, <1>4, <1>5, <1>6, <1>7, <1>8, <1>9, <1>10, PTL
\* What was promised of a table, the host or the form holds of it as it was at first.
LEMMA PromisesAtRest ==
    /\ FeatureInit => FeatureChangesToldAndRecorded
    /\ SettingsInit => TrailIsAnUnbrokenChain
    /\ CatalogInit => OrderIsTheLastMoves /\ AvailabilityIsOnTheTrail
    /\ BenefitInit => NoPatchUndoesAnother
    /\ StorageInit => EveryRowHasItsModel
    /\ WizardInit => OneFailureIsUndone
    /\ FormInit => OneModelPerTicket
    /\ NothingLooked => MeasuredAsBuilt
  <1>1. FeatureInit => FeatureChangesToldAndRecorded
    BY DEF FeatureInit, Nothing, FeatureChangesToldAndRecorded
  <1>2. SettingsInit => TrailIsAnUnbrokenChain
    BY SettingsStart DEF SettingsTrailHolds
  <1>3. CatalogInit => OrderIsTheLastMoves
    BY DEF CatalogInit, Nothing, OrderIsTheLastMoves
  <1>4. CatalogInit => AvailabilityIsOnTheTrail
    BY CatalogStart DEF AvailabilityIsOnTheTrail
  <1>5. BenefitInit => NoPatchUndoesAnother
    BY DEF BenefitInit, Nothing, NoPatchUndoesAnother
  <1>6. StorageInit => EveryRowHasItsModel
    BY DEF StorageInit, EveryRowHasItsModel
  <1>7. WizardInit => OneFailureIsUndone
    BY DEF WizardInit, OneFailureIsUndone
  <1>8. FormInit => OneModelPerTicket
    BY DEF FormInit, Nothing, OneModelPerTicket
  <1>9. NothingLooked => MeasuredAsBuilt
    BY DEF NothingLooked, MeasuredAsBuilt
  <1> QED
    BY <1>1, <1>2, <1>3, <1>4, <1>5, <1>6, <1>7, <1>8, <1>9

\* A copy, a wizard or a run that is not there breaks none either.
LEMMA NobodyBreaks ==
    /\ Quiet(MailOps) => NoMailToTheShutOut
    /\ Quiet({"deploy"}) => NoReleaseGoesUnread
  <1>1. Quiet(MailOps) => InFlight({"notify"}) = {}
    BY DEF Quiet, InFlight, MailOps
  <1> QED
    BY <1>1 DEF Quiet, NoMailToTheShutOut, NoReleaseGoesUnread

\* Nor a checkout in which no test was begun.
LEMMA CheckoutAtRest ==
    ASSUME Untested, \A q \in DOMAIN job : job[q].pc # "suites"
    PROVE  WhatWasThereComesBack
  <1>1. DOMAIN theirs = {} /\ DOMAIN container = {} /\ envFile = original
    BY DEF Untested, Nothing
  <1>2. EnvFilesAreSafe /\ TheirStackIsSafe
    BY <1>1 DEF EnvFilesAreSafe, TheirStackIsSafe
  <1>3. SuitesMeetTheTest
    BY DEF SuitesMeetTheTest, Is
  <1>4. AllIsBack
    BY <1>1 DEF AllIsBack, Of, Untested
  <1> QED
    BY <1>2, <1>3, <1>4 DEF WhatWasThereComesBack

\* The tables' promises and those of the form and of the inspection are kept at
\* whichever desk, with every fault in between.
THEOREM EveryDeskKeepsItsPromises ==
    DeskSpec => /\ []FeatureChangesToldAndRecorded
                /\ []TrailIsAnUnbrokenChain
                /\ []OrderIsTheLastMoves /\ []AvailabilityIsOnTheTrail
                /\ []NoPatchUndoesAnother
                /\ []OneModelPerTicket
                /\ []MeasuredAsBuilt
  <1>1. DeskSpec => []FeatureChangesToldAndRecorded
    BY BehaviourFeature, FeatureChangesAreTold, PromisesAtRest, PTL
  <1>2. DeskSpec => []TrailIsAnUnbrokenChain
    BY BehaviourSettings, EverySettingIsAccountedFor, PromisesAtRest, PTL
  <1>3. DeskSpec => []OrderIsTheLastMoves /\ []AvailabilityIsOnTheTrail
    BY BehaviourCatalog, OrderHolds, AvailabilityIsTold, PromisesAtRest, PTL
  <1>4. DeskSpec => []NoPatchUndoesAnother
    BY BehaviourBenefit, PatchesStayApart, PromisesAtRest, PTL
  <1>5. DeskSpec => []OneModelPerTicket
    BY BehaviourForm, OneModelAtATime, PromisesAtRest, PTL
  <1>6. DeskSpec => []MeasuredAsBuilt
    BY BehaviourInspection, MeasuredWhereBuilt, PromisesAtRest, PTL
  <1> QED
    BY <1>1, <1>2, <1>3, <1>4, <1>5, <1>6, PTL

\* So the feed's, and the deploy wizard's.
THEOREM TheFeedAndTheHostKeepTheirs ==
    DeskSpec => []NoMailToTheShutOut /\ []NoReleaseGoesUnread /\ []OneFailureIsUndone
  <1> DEFINE M == Quiet(MailOps)
             W == Quiet({"deploy"})
  <1> HIDE DEF M, W
  <1>1. SomeDesk /\ OneKind => (~MailHandlers => M) /\ (~WizardHandlers => W)
    BY QuietElsewhere DEF M, W
  <1>2. (M => NoMailToTheShutOut) /\ (W => NoReleaseGoesUnread)
    BY NobodyBreaks DEF M, W
  <1>3. DeskSpec => []NoMailToTheShutOut
    BY <1>1, <1>2, BehaviourMail, TheShutOutHearNothing, AtSomeDesk, AllOfOneKind, PTL
  <1>4. DeskSpec => []NoReleaseGoesUnread
    BY <1>1, <1>2, BehaviourWizard, EveryNoteIsRead, AtSomeDesk, AllOfOneKind, PTL
  <1>5. DeskSpec => []OneFailureIsUndone
    BY BehaviourWizard, TheWayBackHolds, PromisesAtRest, PTL
  <1> QED
    BY <1>3, <1>4, <1>5, PTL

\* So the directory's, unless the migration ends between a rename and its sync, and
\* the checkout's, if runs in it do not overlap.
THEOREM TheFilesKeepTheirs ==
    /\ ~StoppedAtSync => (DeskSpec => []EveryRowHasItsModel /\ ImplementsModelStore)
    /\ ~AtOnce => (DeskSpec => []WhatWasThereComesBack)
  <1>1. ASSUME ~StoppedAtSync
        PROVE  DeskSpec => []EveryRowHasItsModel
    <2>1. StorageSpec => []EveryRowHasItsModel
      BY <1>1, EveryRowKeepsItsModel
    <2> QED
      BY <2>1, BehaviourStorage, PromisesAtRest, PTL
  <1>2. ASSUME ~StoppedAtSync
        PROVE  DeskSpec => ImplementsModelStore
    <2>1. StorageSpec => ImplementsModelStore
      BY <1>2, TheCallsKeepThePromise
    <2>2. StorageInit => Promises!MSInit
      BY DEF StorageInit, Promises!MSInit
    <2>3. ~StorageHandlers /\ [DeskNext]_deskVars
             => ~StorageHandlers' /\ [Promises!MSNext]_(Promises!msVars)
      BY StepAtStorage DEF directory, Promises!msVars
    <2> QED
      BY <2>1, <2>2, <2>3, BehaviourStorage, PTL
      DEF DeskSpec, ImplementsModelStore, Promises!MSSpec
  <1>3. ASSUME ~AtOnce
        PROVE  DeskSpec => []WhatWasThereComesBack
    <2> DEFINE N == \A q \in DOMAIN job : job[q].pc # "suites"
    <2> HIDE DEF N
    <2>1. FullTestSpec => []WhatWasThereComesBack
      BY <1>3, AllComesBack
    <2>2. SomeDesk /\ OneKind => (~TestHandlers => N)
      BY QuietElsewhere DEF N
    <2>3. Untested /\ N => WhatWasThereComesBack
      BY CheckoutAtRest DEF N
    <2> QED
      BY <2>1, <2>2, <2>3, BehaviourTest, AtSomeDesk, AllOfOneKind, PTL
  <1> QED
    BY <1>1, <1>2, <1>3
=============================================================================
