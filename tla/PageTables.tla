------------------------------- MODULE PageTables -------------------------------
(***************************************************************************)
(* The pages of the web application: what each of them reads, and what its    *)
(* buttons and forms do.  One definition per page component (src/components), *)
(* with the names of the source.                                            *)
(*                                                                         *)
(* A page reads query keys; one record of each kind is followed, its identity  *)
(* is "id".  An operation says which kinds of record it is about, the           *)
(* permission its endpoint requires, the permission of the PermissionGate      *)
(* around it, the keys that are invalidated when it has succeeded, and the      *)
(* page that is pushed then.  What an operation does to records of other kinds  *)
(* is left to the changes others make.                                       *)
(***************************************************************************)
EXTENDS Endpoints

Ungated == "none"
Stay == "stay"

\* Where an operation stands: a Form, or a button beside the title, is there before
\* anything is loaded, a Button is part of a record on display, an Edit sends a form that was filled
\* from the record when it appeared, a RowEdit one that is filled from a row.
Operation(shape, about, needs, gate, invalidates, next) ==
  [shape |-> shape, about |-> about, needs |-> needs, gate |-> gate, invalidates |-> invalidates, next |-> next]
Form(about, needs, gate, invalidates) == Operation("form", about, needs, gate, invalidates, Stay)
Button(about, needs, gate, invalidates) == Operation("button", about, needs, gate, invalidates, Stay)
Removal(about, needs, gate, invalidates, next) == Operation("remove", about, needs, gate, invalidates, next)
Edit(about, needs, gate, invalidates, next) == Operation("edit", about, needs, gate, invalidates, next)
RowEdit(about, needs, gate, invalidates) == Operation("row", about, needs, gate, invalidates, Stay)
To(next, form) == [form EXCEPT !.next = next]

Page(reads, operations) == [reads |-> reads, operations |-> operations]

\* The keys a record of a kind is shown under, and the permission to read it.
Kind(needs, keys) == [needs |-> needs, keys |-> keys]
kinds ==
  [counterparty |-> Kind(CounterpartiesController.findAll, {<<"counterparties">>, <<"counterparty", "id">>}),
   programme |-> Kind(ProgrammesController.findAll, {<<"programmes">>, <<"programme", "id">>}),
   invoice |-> Kind(InvoicesController.findAll, {<<"invoices">>, <<"invoice", "id">>}),
   financing |-> Kind(FinancingController.findAll, {<<"financing">>, <<"financing", "id">>}),
   approval |-> Kind(ApprovalsController.findAll,
                     {<<"approvals", "pending">>, <<"approvals", "all">>, <<"approval", "id">>}),
   user |-> Kind(UsersController.findAll, {<<"users">>}),
   payment |-> Kind(PaymentsController.findAll, {<<"payments">>, <<"payments", "id">>}),
   product |-> Kind(ProductsController.findAll,
                    {<<"products-dashboard">>, <<"products", "resource">>, <<"products", "resource", "id">>}),
   operation |-> Kind(OperationsController.findAll, {<<"operations", "resource">>, <<"operations-dashboard">>}),
   document |-> Kind(DocumentsController.findAll, {<<"documents">>, <<"documents", "id">>}),
   notification |-> Kind(NotificationsController.findAll, {<<"notifications">>, <<"notifications", "id">>}),
   connection |-> Kind(IntegrationsController.findConnections,
                       {<<"integration-connections">>, <<"integration-connections", "id">>}),
   endpoint |-> Kind(WebhooksController.findEndpoints, {<<"webhook-endpoints">>, <<"webhook-endpoints", "id">>}),
   delivery |-> Kind(WebhooksController.findDeliveries, {<<"webhook-deliveries">>, <<"webhook-deliveries", "id">>}),
   check |-> Kind(ComplianceController.findChecks,
                  {<<"compliance", "summary">>, <<"compliance", "review-queue">>, <<"compliance", "checks">>,
                   <<"compliance", "checks", "id">>}),
   batch |-> Kind(InvoiceImports.findImportBatches, {<<"invoice-import-batches">>, <<"invoice-import-batch", "id">>}),
   row |-> Kind(InvoiceImports.findImportRows, {<<"invoice-import-rows", "id">>}),
   event |-> Kind(InvoiceImports.findProviderWebhookEvents,
                  {<<"provider-webhook-events">>, <<"provider-webhook-event", "id">>})]
-----------------------------------------------------------------------------
(* workflow-pages.tsx *)

useCoreData == {<<"counterparties">>, <<"programmes">>, <<"invoices">>, <<"financing">>}

DashboardPage == Page(useCoreData \cup {<<"health">>, <<"approvals", "pending">>}, {})

\* Mutation: whoever may see users is offered to save them.
EditableRowForReaders == Edit({"user"}, UsersController.update, "user.read", {<<"users">>}, Stay)

EditableUserRow == Edit({"user"}, UsersController.update, "user.update", {<<"users">>}, Stay)

UserManagementPage ==
  Page({<<"users">>, <<"roles">>},
       {Form({"user"}, UsersController.create, "user.create", {<<"users">>}), EditableUserRow})

RolesPage == Page({<<"roles">>}, {})

ApprovalsPage == Page({<<"approvals", "all">>}, {})
PendingApprovalsPage == Page({<<"approvals", "pending">>}, {})

ApprovalDetailPage ==
  LET changed == {<<"approval", "id">>, <<"approvals">>}
      controller == ApprovalsController
  IN Page({<<"approval", "id">>},
          {Button({"approval"}, controller.approve, "workflow:complete", changed),
           Button({"approval"}, controller.reject, "workflow:complete", changed),
           Button({"approval"}, controller.cancel, "workflow:cancel", changed)})

CounterpartiesPage == Page({<<"counterparties">>}, {})

NewCounterpartyPage ==
  Page({}, {To("Counterparties", Form({"counterparty"}, CounterpartiesController.create, Ungated, {}))})

CounterpartyRelatedTables ==
  {Button({"counterparty"}, needs, "compliance:run_checks", {<<"counterparty", "id">>}) :
     needs \in {UboRecordsController.runKyc, UboRecordsController.runScreening,
                UboRecordsController.runFullComplianceCheck}}

CounterpartyDetailPage ==
  Page({<<"counterparty", "id">>},
       CounterpartyRelatedTables \cup
       {Button({"counterparty"}, needs, "compliance:run_checks", {<<"counterparty", "id">>}) :
          needs \in {CounterpartiesController.runKyb, CounterpartiesController.runScreening,
                     CounterpartiesController.runFullComplianceCheck}})

CounterpartyEditForm(saved, next) ==
  Edit({"counterparty"}, CounterpartiesController.update, "counterparty.update", saved, next)

EditCounterpartyPage ==
  Page({<<"counterparty", "id">>},
       {CounterpartyEditForm({<<"counterparty", "id">>, <<"counterparties">>}, "CounterpartyDetail")})

ProgrammesPage == Page({<<"programmes">>}, {})

NewProgrammePage ==
  Page({<<"counterparties">>}, {To("Programmes", Form({"programme"}, ProgrammesController.create, Ungated, {}))})

ProgrammeDetailPage ==
  LET changed == {<<"programme", "id">>, <<"programmes">>}
  IN Page({<<"programme", "id">>, <<"counterparties">>},
          {Button({"programme"}, ProgrammesController.addParticipant, "programme.participant.add", changed),
           Form({"programme"}, ProgrammesController.activate, "programmes:activate", changed)})

ProgrammeEditForm(saved, next) ==
  Edit({"programme"}, ProgrammesController.update, "programme.update", saved, next)

\* Mutation: only the list is fetched again.
EditProgrammePageForTheList ==
  Page({<<"programme", "id">>, <<"counterparties">>},
       {ProgrammeEditForm({<<"programmes">>}, "ProgrammeDetail")})

EditProgrammePage ==
  Page({<<"programme", "id">>, <<"counterparties">>},
       {ProgrammeEditForm({<<"programme", "id">>, <<"programmes">>}, "ProgrammeDetail")})

InvoicesPage ==
  Page({<<"invoices">>},
       {Button({"invoice"}, InvoicesController.approve, "invoice.approve", {<<"invoices">>}),
        Button({"invoice"}, FinancingController.createOfferFromInvoice, "financing.offer.generate",
               {<<"invoices">>, <<"financing">>})})

NewInvoicePage ==
  Page({<<"counterparties">>, <<"programmes">>},
       {To("Invoices", Form({"invoice"}, InvoicesController.create, Ungated, {}))})

InvoiceDetailPage ==
  Page({<<"invoice", "id">>},
       {Button({"invoice"}, InvoicesController.approve, "invoice.approve", {<<"invoice", "id">>}),
        To("FinancingDetail",
           Button({"invoice"}, FinancingController.createOfferFromInvoice, "financing.offer.generate",
                  {<<"invoice", "id">>, <<"invoices">>, <<"financing">>})),
        Button({"invoice"}, InvoicesController.confirmBuyerApproval, "invoices:validate", {<<"invoice", "id">>}),
        Button({"invoice"}, InvoicesController.validateEInvoicing, "invoices:validate", {<<"invoice", "id">>}),
        Button({"invoice"}, InvoicesController.runDuplicateCheck, "invoices:validate", {<<"invoice", "id">>}),
        Removal({"invoice"}, InvoicesController.remove, "invoice.delete", {}, "Invoices")})

InvoiceEditForm(saved, next) == Edit({"invoice"}, InvoicesController.update, "invoice.update", saved, next)

EditInvoicePage ==
  Page({<<"invoice", "id">>}, {InvoiceEditForm({<<"invoice", "id">>, <<"invoices">>}, "InvoiceDetail")})

FinancingPage == Page({<<"financing">>}, {})

\* Mutation: the page forgets to fetch the record again.
FinancingDetailPageAsItWas ==
  LET controller == FinancingController
      steps == {<<controller.accept, "financing.offer.accept">>, <<controller.fund, "funding.allocate">>,
                <<controller.disburse, "payment.disburse">>, <<controller.collect, "collection.manage">>}
  IN Page({<<"financing", "id">>},
          {Button({"financing"}, step[1], step[2], {}) : step \in steps})

FinancingDetailPage ==
  LET controller == FinancingController
      steps == {<<controller.accept, "financing.offer.accept">>, <<controller.fund, "funding.allocate">>,
                <<controller.disburse, "payment.disburse">>, <<controller.collect, "collection.manage">>}
  IN Page({<<"financing", "id">>},
          {Button({"financing"}, step[1], step[2], {<<"financing", "id">>}) : step \in steps} \cup
          {Removal({"financing"}, controller.remove, "financing.delete", {}, "Financing")})

FinancingEditForm(saved, next) == Edit({"financing"}, FinancingController.update, "financing.update", saved, next)

EditFinancingPage ==
  Page({<<"financing", "id">>}, {FinancingEditForm({<<"financing", "id">>, <<"financing">>}, "FinancingDetail")})

ReportsPage ==
  Page(useCoreData \cup {<<"products", "resource">>},
       {Form({}, ProductsController.exportCsv, "report.export", {})})

OperationsControlPage ==
  LET changed == {<<"operations", "resource">>, <<"operations-dashboard">>}
  IN Page(changed, {Form({"operation"}, OperationsController.create, Ungated, changed),
                    RowEdit({"operation"}, OperationsController.update, Ungated, changed)})
-----------------------------------------------------------------------------
(* payment-pages.tsx and product-pages.tsx *)

PaymentsPage ==
  Page({<<"payments">>, <<"counterparties">>},
       {Form({"payment"}, PaymentsController.create, "payments:create", {<<"payments">>})})

\* Whatever is patched is typed in, not filled from the payment.
PaymentDetailPage ==
  LET controller == PaymentsController
      gates == {<<controller.submit, "payments:submit_for_approval">>, <<controller.approve, "payments:approve">>,
                <<controller.initiate, "payments:initiate_provider">>, <<controller.verify, "payments:verify_provider">>,
                <<controller.confirm, "payments:confirm">>, <<controller.fail, "payments:fail">>,
                <<controller.markReturned, "payments:return">>, <<controller.update, "payments:update">>}
  IN Page({<<"payments", "id">>},
          {Button({"payment"}, gate[1], gate[2], {<<"payments", "id">>}) : gate \in gates})

PaymentWebhookEventsPage == Page({<<"payment-webhook-events">>}, {})
PaymentWebhookEventDetailPage == Page({<<"payment-webhook-events", "id">>}, {})

ProductOverviewPage == Page({<<"products-dashboard">>}, {})

\* Calculating fills the form and changes no record.
ProductResourcePage ==
  LET changed == {<<"products", "resource">>, <<"products-dashboard">>}
      gate == "product.configure"
      controller == ProductsController
  IN Page({<<"products", "resource">>, <<"counterparties">>, <<"programmes">>, <<"invoices">>, <<"financing">>,
           <<"payments">>},
          {Form({"product"}, controller.create, gate, changed), Form({}, controller.calculate, gate, {}),
           RowEdit({"product"}, controller.update, gate, changed),
           Removal({"product"}, controller.remove, gate, changed, Stay)})

ProductRecordDetailPage ==
  Page({<<"products", "resource", "id">>, <<"audit">>},
       {Button({"product"}, ProductsController.action, "product.configure",
               {<<"products", "resource", "id">>, <<"audit">>})})
-----------------------------------------------------------------------------
(* compliance-pages.tsx, invoice-import-pages.tsx and provider-webhook-pages.tsx *)

ComplianceHomePage == Page({<<"compliance", "summary">>}, {})
ComplianceChecksPage == Page({<<"compliance", "checks">>}, {})
ComplianceReviewQueuePage == Page({<<"compliance", "review-queue">>}, {})

ComplianceCheckDetailPage ==
  Page({<<"compliance", "checks", "id">>},
       {Button({"check"}, needs, Ungated, {<<"compliance", "checks", "id">>}) :
          needs \in {ComplianceController.review, ComplianceController.expire}})

InvoiceImportPage ==
  Page({<<"programmes">>, <<"counterparties">>},
       {To("InvoiceImportBatchDetail", Form({"batch", "row"}, needs, Ungated, {})) :
          needs \in {InvoiceImports.importCsv, InvoiceImports.importExcel, InvoiceImports.importJson,
                     InvoiceImports.importErp}})

InvoiceImportBatchesPage == Page({<<"invoice-import-batches">>}, {})

\* Cancelling a batch leaves its rows as they are.
InvoiceImportBatchDetailPage ==
  LET batch == <<"invoice-import-batch", "id">>
      rows == <<"invoice-import-rows", "id">>
  IN Page({batch, rows},
          {Button({"batch", "row"}, InvoiceImports.processValidRows, Ungated, {batch, rows}),
           Button({"batch"}, InvoiceImports.cancelImportBatch, Ungated, {batch})})

InvoiceExceptionsPage == Page({<<"invoice-exceptions">>}, {})

ProviderWebhookEventsPage ==
  Page({<<"provider-webhook-events">>, <<"provider-callback-reconciliation">>}, {})

ProviderWebhookEventDetailPage ==
  Page({<<"provider-webhook-event", "id">>},
       {Button({"event"}, InvoiceImports.retryProviderWebhookEvent, Ungated, {<<"provider-webhook-event", "id">>})})
-----------------------------------------------------------------------------
(* integration-readiness-pages.tsx and platform-operations-pages.tsx *)

DocumentsPage ==
  Page({<<"documents">>, <<"counterparties">>},
       {Form({"document"}, DocumentsController.upload, Ungated, {<<"documents">>})})

DocumentDetailPage ==
  Page({<<"documents", "id">>},
       {Button({"document"}, needs, Ungated, {<<"documents", "id">>}) :
          needs \in {DocumentsController.verify, DocumentsController.reject}} \cup
       {Button({}, DocumentsController.getDownloadUrl, Ungated, {}),
        Removal({"document"}, DocumentsController.remove, Ungated, {}, "Documents")})

NotificationsPage ==
  Page({<<"notifications">>, <<"counterparties">>},
       {Form({"notification"}, NotificationsController.create, Ungated, {<<"notifications">>})})

NotificationDetailPage ==
  Page({<<"notifications", "id">>},
       {Button({"notification"}, needs, Ungated, {<<"notifications", "id">>}) :
          needs \in {NotificationsController.send, NotificationsController.retry, NotificationsController.cancel}})

IntegrationConnectionsPage ==
  Page({<<"integration-connections">>},
       {Form({"connection"}, IntegrationsController.createConnection, Ungated, {<<"integration-connections">>})})

IntegrationConnectionDetailPage ==
  Page({<<"integration-connections", "id">>},
       {Button({"connection"}, needs, Ungated, {<<"integration-connections", "id">>}) :
          needs \in {IntegrationsController.testConnection, IntegrationsController.enableConnection,
                     IntegrationsController.disableConnection}})

IntegrationLogsPage == Page({<<"integration-logs">>}, {})

WebhookEndpointsPage ==
  Page({<<"webhook-endpoints">>},
       {Form({"endpoint"}, WebhooksController.createEndpoint, Ungated, {<<"webhook-endpoints">>})})

WebhookEndpointDetailPage ==
  Page({<<"webhook-endpoints", "id">>},
       {Removal({"endpoint"}, WebhooksController.deleteEndpoint, Ungated, {}, "WebhookEndpoints")})

WebhookDeliveriesPage == Page({<<"webhook-deliveries">>}, {})

WebhookDeliveryDetailPage ==
  Page({<<"webhook-deliveries", "id">>},
       {Button({"delivery"}, needs, Ungated, {<<"webhook-deliveries", "id">>}) :
          needs \in {WebhooksController.retryDelivery, WebhooksController.cancelDelivery}})

OnboardingWorkspacePage ==
  Page({}, {Form({"counterparty"}, CounterpartiesController.create, Ungated, {<<"counterparties">>})})

AuditTrailPage == Page({<<"audit">>}, {})
-----------------------------------------------------------------------------
pages ==
  [Dashboard |-> DashboardPage, UserManagement |-> UserManagementPage, Roles |-> RolesPage,
   Approvals |-> ApprovalsPage, PendingApprovals |-> PendingApprovalsPage, ApprovalDetail |-> ApprovalDetailPage,
   Counterparties |-> CounterpartiesPage, NewCounterparty |-> NewCounterpartyPage,
   CounterpartyDetail |-> CounterpartyDetailPage, EditCounterparty |-> EditCounterpartyPage,
   Programmes |-> ProgrammesPage, NewProgramme |-> NewProgrammePage, ProgrammeDetail |-> ProgrammeDetailPage,
   EditProgramme |-> EditProgrammePage, Invoices |-> InvoicesPage, NewInvoice |-> NewInvoicePage,
   InvoiceDetail |-> InvoiceDetailPage, EditInvoice |-> EditInvoicePage, Financing |-> FinancingPage,
   FinancingDetail |-> FinancingDetailPage, EditFinancing |-> EditFinancingPage, Reports |-> ReportsPage,
   OperationsControl |-> OperationsControlPage, Payments |-> PaymentsPage, PaymentDetail |-> PaymentDetailPage,
   PaymentWebhookEvents |-> PaymentWebhookEventsPage, PaymentWebhookEventDetail |-> PaymentWebhookEventDetailPage,
   ProductOverview |-> ProductOverviewPage, ProductResource |-> ProductResourcePage,
   ProductRecordDetail |-> ProductRecordDetailPage, ComplianceHome |-> ComplianceHomePage,
   ComplianceChecks |-> ComplianceChecksPage, ComplianceReviewQueue |-> ComplianceReviewQueuePage,
   ComplianceCheckDetail |-> ComplianceCheckDetailPage, InvoiceImport |-> InvoiceImportPage,
   InvoiceImportBatches |-> InvoiceImportBatchesPage, InvoiceImportBatchDetail |-> InvoiceImportBatchDetailPage,
   InvoiceExceptions |-> InvoiceExceptionsPage, ProviderWebhookEvents |-> ProviderWebhookEventsPage,
   ProviderWebhookEventDetail |-> ProviderWebhookEventDetailPage, Documents |-> DocumentsPage,
   DocumentDetail |-> DocumentDetailPage, Notifications |-> NotificationsPage,
   NotificationDetail |-> NotificationDetailPage, IntegrationConnections |-> IntegrationConnectionsPage,
   IntegrationConnectionDetail |-> IntegrationConnectionDetailPage, IntegrationLogs |-> IntegrationLogsPage,
   WebhookEndpoints |-> WebhookEndpointsPage, WebhookEndpointDetail |-> WebhookEndpointDetailPage,
   WebhookDeliveries |-> WebhookDeliveriesPage, WebhookDeliveryDetail |-> WebhookDeliveryDetailPage,
   OnboardingWorkspace |-> OnboardingWorkspacePage, AuditTrail |-> AuditTrailPage]

\* The pages of the menu and what AppShell asks before it offers them.
navGroups ==
  [Dashboard |-> "report.read", Counterparties |-> "counterparty.read", OnboardingWorkspace |-> "counterparty.create",
   Programmes |-> "programme.read", Invoices |-> "invoice.read", InvoiceImport |-> "invoices:import",
   InvoiceExceptions |-> "invoice.read", Financing |-> "financing.read", Payments |-> "payment.read",
   Approvals |-> "workflow:read", Documents |-> "documents:read", ComplianceHome |-> "compliance:read",
   Reports |-> "report.read", Notifications |-> "notifications:read",
   IntegrationConnections |-> "integrations:read", WebhookEndpoints |-> "webhooks:read",
   UserManagement |-> "users:read", Roles |-> "roles:manage", AuditTrail |-> "audit:read"]
===============================================================================
