------------------------------- MODULE Endpoints -------------------------------
(***************************************************************************)
(* The endpoints of the API and the permission each of them requires: one     *)
(* record per controller, a field per handler.  Public ones are served to      *)
(* anybody, SignedIn ones to everybody with a valid token.                   *)
(***************************************************************************)
EXTENDS Permissions

Public == "public"
SignedIn == "signed in"

\* What the guards ask of the holder of a valid token (global guards of the API).
mayCall(roles, permissions, required) ==
  required \in {Public, SignedIn} \/ canActivate(roles, permissions, {required})

HealthController == [check |-> Public]

AuthController ==
  [login |-> Public, register |-> Public, requestPasswordReset |-> Public, confirmPasswordReset |-> Public,
   logout |-> SignedIn, me |-> SignedIn, changePassword |-> SignedIn, inviteUser |-> "users:create"]

UsersController ==
  [findAll |-> "user.read", findOne |-> "user.read", create |-> "user.create", update |-> "user.update"]

RolesController == [findAll |-> "role.read"]

AuditController == [findAll |-> "audit:read"]

ApprovalsController ==
  [findAll |-> "workflow:read", pending |-> "workflow:read", findOne |-> "workflow:read",
   create |-> "workflow:create", approve |-> "workflow:complete", reject |-> "workflow:complete",
   cancel |-> "workflow:cancel"]

CounterpartiesController ==
  [create |-> "counterparty.create", findAll |-> "counterparty.read", findOne |-> "counterparty.read",
   update |-> "counterparty.update", runKyb |-> "kyc.screen", runScreening |-> "kyc.screen",
   runFullComplianceCheck |-> "compliance:run_checks", approveKyc |-> "counterparties:approve_kyc",
   rejectKyc |-> "counterparties:reject_kyc"]

UboRecordsController ==
  [runKyc |-> "kyc.screen", runScreening |-> "kyc.screen", runFullComplianceCheck |-> "compliance:run_checks"]

ComplianceController ==
  [findChecks |-> "compliance:read", findCheck |-> "compliance:read", reviewQueue |-> "compliance:read",
   summary |-> "compliance:read", review |-> "compliance:review", expire |-> "compliance:override"]

ComplianceReportsController == [summary |-> "compliance:read"]

ProgrammesController ==
  [create |-> "programme.create", findAll |-> "programme.read", findOne |-> "programme.read",
   update |-> "programme.update", addParticipant |-> "programme.participant.add",
   approve |-> "programmes:approve", activate |-> "programmes:activate", suspend |-> "programmes:suspend",
   close |-> "programmes:close"]

InvoicesController ==
  [create |-> "invoice.create", findAll |-> "invoice.read", findOne |-> "invoice.read",
   update |-> "invoice.update", approve |-> "invoice.approve", remove |-> "invoice.delete",
   confirmBuyerApproval |-> "invoices:validate", validateEInvoicing |-> "invoices:validate",
   runDuplicateCheck |-> "invoices:validate"]

\* Its handlers for batches and for what providers send.
InvoiceImports ==
  [importCsv |-> "invoices:import", importExcel |-> "invoices:import", importJson |-> "invoices:import",
   importErp |-> "invoices:import", findImportBatches |-> "integrations:read",
   findImportBatch |-> "integrations:read", findImportRows |-> "integrations:read",
   processValidRows |-> "invoices:import", cancelImportBatch |-> "invoices:import",
   findExceptions |-> "invoice.read", findProviderWebhookEvents |-> "integrations:read",
   findProviderWebhookEvent |-> "integrations:read", retryProviderWebhookEvent |-> "integrations:test",
   reconcileProviderCallbacks |-> "integrations:read"]

ErpController ==
  [importInvoices |-> "integrations:update", confirmInvoiceApproval |-> "integrations:update",
   validateInvoice |-> "einvoice.submit"]

FinancingController ==
  [createOfferFromInvoice |-> "financing.offer.generate", accept |-> "financing.offer.accept",
   fund |-> "funding.allocate", disburse |-> "payment.disburse", markDisbursed |-> "financing:mark_disbursed",
   collect |-> "collection.manage", markCollected |-> "financing:mark_collected",
   close |-> "financing:close", findAll |-> "financing.read", findOne |-> "financing.read",
   update |-> "financing.update", remove |-> "financing.delete"]

PaymentsController ==
  [findAll |-> "payments:read", findOne |-> "payments:read", findWebhookEvents |-> "payments:webhook_read",
   findWebhookEvent |-> "payments:webhook_read", create |-> "payments:create", update |-> "payments:update",
   submit |-> "payments:submit_for_approval", approve |-> "payments:approve",
   initiate |-> "payments:initiate_provider", verify |-> "payments:verify_provider",
   confirm |-> "payments:confirm", fail |-> "payments:fail", markReturned |-> "payments:return"]

ProductsController ==
  [dashboard |-> "report.read", findAll |-> "report.read", findOne |-> "report.read",
   calculate |-> "report.read", exportCsv |-> "report.export", create |-> "product.configure",
   update |-> "product.configure", remove |-> "product.configure", action |-> "product.configure"]

DocumentsController ==
  [findAll |-> "documents:read", findOne |-> "documents:read", upload |-> "documents:upload",
   download |-> "documents:download", getDownloadUrl |-> "documents:download", update |-> "documents:update",
   remove |-> "documents:delete", verify |-> "documents:verify", reject |-> "documents:reject"]

NotificationsController ==
  [findAll |-> "notifications:read", findOne |-> "notifications:read", create |-> "notifications:send",
   update |-> "notifications:send", send |-> "notifications:send", sendTemplate |-> "notifications:send",
   retry |-> "notifications:retry", cancel |-> "notifications:cancel"]

IntegrationsController ==
  [findConnections |-> "integrations:read", findConnection |-> "integrations:read",
   createConnection |-> "integrations:create", updateConnection |-> "integrations:update",
   testConnection |-> "integrations:test", enableConnection |-> "integrations:enable",
   disableConnection |-> "integrations:disable", findLogs |-> "integrations:logs_read",
   findLog |-> "integrations:logs_read"]

\* The callbacks of the providers are public and check a signature.
WebhooksController ==
  [findEndpoints |-> "webhooks:read", findEndpoint |-> "webhooks:read", createEndpoint |-> "webhooks:create",
   updateEndpoint |-> "webhooks:update", deleteEndpoint |-> "webhooks:delete",
   findDeliveries |-> "webhooks:read", findDelivery |-> "webhooks:read", retryDelivery |-> "webhooks:retry",
   cancelDelivery |-> "webhooks:update", processMockPaymentWebhook |-> Public,
   processSandboxPaymentWebhook |-> Public, processErpProviderWebhook |-> Public,
   processEInvoicingProviderWebhook |-> Public]

OperationsController ==
  [dashboard |-> "report.read", findAll |-> "report.read", create |-> "report.read",
   update |-> "reconciliation.manage"]
===============================================================================
