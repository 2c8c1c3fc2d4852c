------------------------------- MODULE Programs -------------------------------
(***************************************************************************)
(* What each HTTP handler does, as the sequence of its steps: the reads, the   *)
(* one call of the service that changes something, and the entries it then     *)
(* leaves in the audit trail.  Trail gives the steps their meaning.            *)
(*                                                                           *)
(* Decoding a path, a page or a body can refuse a request before the first     *)
(* step; any call of a service can refuse it by the service's own rules.       *)
(***************************************************************************)
EXTENDS Sequences

(* What services do. *)
Get == <<"fetch">>                   \* a row that must be there
List == <<"list">>
Patch == <<"load", "save">>          \* load, set the fields of the body, save the whole row
Drop == <<"check", "drop">>          \* DELETE answers no error when no row matches

---------------------------------------------------------------------------
(* The helpers of the handlers. *)

\* Below an organization's record.
OrgNestedList == List
OrgNestedCreate == <<"create", "logCreate">>
OrgNestedGet == Get
OrgNestedUpdate == Get \o Patch \o <<"logChanges">>
OrgNestedDeleteWithFetch == Get \o Drop \o <<"logSnapshot">>

\* Two below.
OrgDeepNestedList == List
OrgDeepNestedCreate == <<"create", "logCreate">>
OrgDeepNestedGet == Get
OrgDeepNestedUpdate == Get \o Patch \o <<"logChanges">>
OrgDeepNestedDeleteWithFetch == Get \o Drop \o <<"logSnapshot">>

\* Below a record of the installation; its entries name no organization.
GlobalNestedList == List
GlobalNestedCreate == <<"create", "logCreate">>
GlobalNestedGet == Get
GlobalNestedUpdate == Get \o Patch \o <<"logChanges">>
GlobalNestedDeleteWithFetch == Get \o Drop \o <<"logSnapshot">>
GlobalDeepNestedList == List
GlobalDeepNestedCreate == <<"create", "logCreate">>
GlobalDeepNestedGet == Get
GlobalDeepNestedUpdate == Get \o Patch \o <<"logChanges">>
GlobalDeepNestedDeleteWithFetch == Get \o Drop \o <<"logSnapshot">>

\* An organization's own records.
OrgList == List
OrgGet == Get
OrgCreate == <<"create", "logCreate">>
OrgUpdate == Get \o Patch \o <<"logChanges">>
OrgDelete == Get \o Drop \o <<"logSnapshot">>

\* Contracts.  What is read for the diff may fail without refusing the request;
\* the version stated in If-Match is the service's condition for the write.
GetContract == Get
CreateContract == <<"create", "logCreate">>
UpdateContract == <<"ifMatch", "peek", "change", "logChanges">>
\* Mutant: the successor of an amended contract is not named.
SuccessorUnnamed == <<"ifMatch", "peek", "amend", "logChanges">>
AmendContract == <<"ifMatch", "peek", "amend", "logAmended">>
MoveBoundary == <<"peek", "peekOther", "move", "logMoved">>
DeleteVersioned == <<"ifMatch">> \o Get \o <<"remove", "logSnapshot">>

---------------------------------------------------------------------------
(* The handlers, by the resource and its level. *)

PayPlanReads == [ListPlans |-> OrgList, GetPlan |-> Get]
PayPlanWrites == [CreatePlan |-> OrgCreate, UpdatePlan |-> OrgUpdate, DeletePlan |-> OrgDelete]
PayPlanPeriods ==
    [ListPayPeriods |-> OrgNestedList, CreatePayPeriod |-> OrgNestedCreate, GetPayPeriod |-> OrgNestedGet,
     UpdatePayPeriod |-> OrgNestedUpdate, DeletePayPeriod |-> OrgNestedDeleteWithFetch]
PayPlanEntries ==
    [ListPayEntries |-> OrgDeepNestedList, CreatePayEntry |-> OrgDeepNestedCreate,
     GetPayEntry |-> OrgDeepNestedGet, UpdatePayEntry |-> OrgDeepNestedUpdate,
     DeletePayEntry |-> OrgDeepNestedDeleteWithFetch]
\* A plan is imported under its name: it replaces the periods of the plan that has it.
PayPlanFiles == [ExportPlan |-> Get \o <<"logExport">>, ImportPlan |-> <<"replace", "logCreate">>]

BudgetItems ==
    [ListItems |-> OrgList, GetItem |-> Get, CreateItem |-> OrgCreate]
BudgetItemWrites == [UpdateItem |-> OrgUpdate, DeleteItem |-> OrgDelete]
BudgetItemEntries ==
    [ListItemEntries |-> OrgNestedList, CreateItemEntry |-> OrgNestedCreate,
     GetItemEntry |-> OrgNestedGet, UpdateItemEntry |-> OrgNestedUpdate,
     DeleteItemEntry |-> OrgNestedDeleteWithFetch]

FundingReads == [ListFundings |-> List, GetFunding |-> Get]
FundingWrites == [CreateFunding |-> OrgCreate, UpdateFunding |-> OrgUpdate, DeleteFunding |-> OrgDelete]
FundingPeriods ==
    [ListFundingPeriods |-> GlobalNestedList, CreateFundingPeriod |-> GlobalNestedCreate,
     GetFundingPeriod |-> GlobalNestedGet, UpdateFundingPeriod |-> GlobalNestedUpdate,
     DeleteFundingPeriod |-> GlobalNestedDeleteWithFetch]
FundingProperties ==
    [ListProperties |-> GlobalDeepNestedList, CreateProperty |-> GlobalDeepNestedCreate,
     GetProperty |-> GlobalDeepNestedGet, UpdateProperty |-> GlobalDeepNestedUpdate,
     DeleteProperty |-> GlobalDeepNestedDeleteWithFetch]
\* The file is stored, then the funding is read for the answer, then it is logged.
FundingFile == [ImportFunding |-> <<"merge", "reread", "logImport">>]

Sections ==
    [ListSections |-> OrgList, GetSection |-> OrgGet, CreateSection |-> OrgCreate,
     UpdateSection |-> OrgUpdate, DeleteSection |-> OrgDelete,
     PromoteSection |-> Get \o <<"change", "logUpdate">>]

Organizations ==
    [ListOrganizations |-> List, GetOrganization |-> Get, CreateOrganization |-> OrgCreate]
OrganizationWrites ==
    [UpdateOrganization |-> OrgUpdate, DeleteOrganization |-> OrgDelete,
     PurgeOrganization |-> Get \o Drop \o <<"logDelete">>]

ChildReads == [ListChildren |-> List, GetChild |-> Get]
\* The deletion of a child carries no snapshot.
ChildWrites ==
    [CreateChild |-> OrgCreate, UpdateChild |-> OrgUpdate, DeleteChild |-> Get \o Drop \o <<"logDelete">>]
ChildContracts ==
    [ListChildContracts |-> List, CurrentChildContract |-> Get, GetChildContract |-> GetContract,
     CreateChildContract |-> CreateContract]
ChildContractIntents ==
    [CorrectChildContract |-> UpdateContract, AmendChildContract |-> AmendContract,
     EndChildContract |-> UpdateContract]
ChildContractMoves == [MoveChildBoundary |-> MoveBoundary, DeleteChildContract |-> DeleteVersioned]
ChildFiles ==
    [ExportChildrenYAML |-> <<"count", "page">>, ImportChildren |-> <<"replace", "logImport">>]

EmployeeReads == [ListEmployees |-> List, GetEmployee |-> Get]
EmployeeWrites ==
    [CreateEmployee |-> OrgCreate, UpdateEmployee |-> OrgUpdate,
     DeleteEmployee |-> Get \o Drop \o <<"logDelete">>]
EmployeeContracts ==
    [ListEmployeeContracts |-> List, CurrentEmployeeContract |-> Get,
     GetEmployeeContract |-> GetContract, CreateEmployeeContract |-> CreateContract]
EmployeeContractIntents ==
    [CorrectEmployeeContract |-> UpdateContract, AmendEmployeeContract |-> AmendContract,
     EndEmployeeContract |-> UpdateContract]
EmployeeContractMoves == [MoveEmployeeBoundary |-> MoveBoundary, DeleteEmployeeContract |-> DeleteVersioned]
EmployeeFiles ==
    [ExportEmployeesYAML |-> <<"count", "page">>, ImportEmployees |-> <<"replace", "logImport">>]

Workbooks ==
    [ExportEmployees |-> <<"count", "page", "logExport">>, ExportChildren |-> <<"count", "page", "logExport">>]

AttendanceWrites ==
    [CreateAttendance |-> OrgNestedCreate, GetAttendance |-> Get,
     UpdateAttendance |-> Get \o Patch \o <<"logChanges">>,
     DeleteAttendance |-> Get \o Drop \o <<"logSnapshot">>]
AttendanceReads == [ListAttendance |-> List, ListAttendanceByDate |-> List, DailySummary |-> List]

\* A bill is stored, then its answer is read, then it is logged.
BillWrites == [UploadISBJ |-> <<"create", "reread", "logCreate">>, ListBills |-> List, GetBill |-> Get]
BillReads == [CompareBill |-> Get, CompareUnified |-> List]
BillReports ==
    [ChildrenWithoutVouchers |-> List, UnmatchedBillChildren |-> List, ChildrenBillingSummary |-> List,
     ChildBillingHistory |-> List]
\* The service hands back the row it found before it deleted it.
BillVouchers ==
    [DeleteBill |-> Get \o <<"drop", "logSnapshot">>, ListChildVouchers |-> List,
     RemoveVoucher |-> Get \o <<"remove", "logDelete">>, AssignVoucher |-> <<"assign", "logCreate">>]

UserReads == [ListUsers |-> List, ListUsersByOrganization |-> List, GetUser |-> Get]
UserWrites ==
    [CreateUser |-> OrgCreate, UpdateUser |-> Get \o Patch \o <<"logAcrossOrgs">>]
UserRemovals ==
    [DeleteUser |-> Get \o Drop \o <<"logDelete">>, PurgeUser |-> Get \o Drop \o <<"logDelete">>]
Memberships ==
    [AddToOrganization |-> <<"create", "logCreate">>,
     UpdateOrganizationRole |-> <<"peek", "change", "logRole">>,
     RemoveFromOrganization |-> Drop \o <<"logDelete">>]
MembershipReads == [GetMemberships |-> List, GetMyMemberships |-> List]
\* The password is asked again; what fails after the change was stored is an error answer.
Superadmins == [SetSuperAdmin |-> Get \o <<"password", "change", "logGranted", "reread">>]
Passwords == [ResetPassword |-> <<"load", "password", "save", "revoke", "logUpdate">>]

Statistics ==
    [StaffingHours |-> List, EmployeeStaffingHours |-> List, Occupancy |-> List, AgeDistribution |-> List]
Finances == [ContractProperties |-> List, Funding |-> List, Financials |-> List]
Estimates == [Forecast |-> List, EstimateChildFunding |-> List, EstimateEmployeeCost |-> List]
Promotions == [StepPromotions |-> List]
AuditTrail == [ListEntries |-> List, ListOrganizationEntries |-> List, GetEntry |-> Get]

\* A request the middleware answers with 403.
Denials == [Refused |-> <<"admit", "logDenied">>]
=============================================================================
