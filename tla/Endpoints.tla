------------------------------- MODULE Endpoints -------------------------------
(***************************************************************************)
(* What the endpoints of the backend ask of their caller (api/,            *)
(* identity/api/).  A handler is reduced to the permission it requires, to *)
(* whether it changes anything, and to how far it reaches: the caller's    *)
(* school, the caller's own records or children (it calls                  *)
(* enforce_relationship_access), or the platform (only a super admin).     *)
(* Operations that only read are told apart by their permission alone.     *)
(***************************************************************************)

Operations(names, Needs(_), changes, reach) ==
    {[op |-> o, needs |-> Needs(o), changes |-> changes, reach |-> reach] : o \in names}

Guarded(module, ops, reach) ==
    Operations(DOMAIN ops, LAMBDA o : <<module, ops[o]>>, TRUE, reach)

Readings(module, actions, reach) ==
    {[op |-> "read", needs |-> <<module, a>>, changes |-> FALSE, reach |-> reach] : a \in actions}

Changes(module, ops)         == Guarded(module, ops, "school")
OwnChanges(module, ops)      == Guarded(module, ops, "own")
PlatformChanges(module, ops) == Guarded(module, ops, "platform")
Reads(module, actions)       == Readings(module, actions, "school")
OwnReads(module, actions)    == Readings(module, actions, "own")

\* Only a valid access token, or nothing at all.
SignedIn(names) == Operations(names, LAMBDA o : <<"signed in">>, TRUE, "school")
Anyone(names)   == Operations(names, LAMBDA o : <<"anyone">>, TRUE, "school")

\* ENTITY_PERMISSION: what is imported decides on the permission.
EntityPermission == {<<"student", "create">>, <<"teacher", "create">>, <<"parent", "create">>,
                     <<"fees", "create">>, <<"marks", "create">>}
Imports(names) ==
    UNION {Operations(names, LAMBDA o : p, names # {"read"}, "school") : p \in EntityPermission}

-----------------------------------------------------------------------------
\* api/section/section_controller.py
SectionEndpoints ==
    Changes("section", [create_section |-> "create", update_section |-> "update"])
    \cup Reads("section", {"view"})

SectionEndpointsRest ==
    Changes("section", [delete_section |-> "delete"])

\* api/student/student_controller.py
StudentEndpoints ==
    Changes("student", [create_student |-> "create"])
    \cup OwnReads("student", {"view"})

StudentEndpointsRest ==
    Changes("student", [update_student |-> "update", delete_student |-> "delete"])

\* api/student/student_promotion_controller.py
StudentPromotionStudentEnrollments ==
    Reads("student", {"view"})
    \cup Changes("student", [promote_student |-> "promote", retain_student |-> "retain",
             bulk_promote_students |-> "promote"])

StudentPromotionBulkRetainStudents ==
    Changes("student", [bulk_retain_students |-> "retain",
        issue_transfer_certificate |-> "tc.create"])
    \cup OwnReads("student", {"tc.view"})

\* api/teacher/teacher_controller.py
TeacherEndpoints ==
    Changes("teacher", [create_teacher |-> "create"])
    \cup Reads("teacher", {"view"})

TeacherEndpointsRest ==
    Changes("teacher", [update_teacher |-> "update", delete_teacher |-> "delete"])

\* api/v1/endpoints/academic_term.py
AcademicTermEndpoints ==
    Changes("academic_term", [create_academic_term |-> "create",
        update_academic_term |-> "update", delete_academic_term |-> "delete"])
    \cup Reads("academic_term", {"view"})

\* api/v1/endpoints/academic_year.py
AcademicYearCurrentAcademicYear ==
    Changes("academic_year", [create_academic_year |-> "create"])
    \cup Reads("academic_year", {"view"})

AcademicYearEndpoints ==
    Changes("academic_year", [update_academic_year |-> "update",
        delete_academic_year |-> "delete"])
    \cup Changes("student", [transition_academic_year |-> "transition"])
    \cup Changes("progression", [generate_progression_preview |-> "preview"])

AcademicYearProgressionRollover ==
    Changes("progression", [execute_progression_rollover |-> "execute"])

\* api/v1/endpoints/admissions.py
AdmissionsAdmissionCycle ==
    Changes("admissions", [create_admission_cycle |-> "create",
        update_admission_cycle |-> "update", delete_admission_cycle |-> "delete",
        create_applicant |-> "create"])
    \cup Reads("admissions", {"view"})

AdmissionsApplicants ==
    Reads("admissions", {"view"})
    \cup Changes("admissions", [update_applicant |-> "update", delete_applicant |-> "delete",
             create_admission_application |-> "create"])

AdmissionsAdmissionApplications ==
    Reads("admissions", {"view"})
    \cup Changes("admissions", [update_admission_application |-> "update",
             submit_admission_application |-> "update", review_admission_application |-> "review",
             record_admission_decision |-> "review"])

AdmissionsWithdrawAdmissionApplication ==
    Changes("admissions", [withdraw_admission_application |-> "update"])
    \cup Reads("admissions", {"view"})

\* api/v1/endpoints/ai.py
AiEndpoints ==
    Changes("ai", [chat_with_assistant |-> "assistant"])
    \cup Reads("ai", {"assistant"})
    \cup SignedIn({"get_ai_usage_stats"})
    \cup Reads("system", {"settings"})
    \cup Changes("system", [update_provider_config |-> "settings",
             update_usage_limit |-> "settings"])

\* api/v1/endpoints/ai_communication.py
AiCommunicationEndpoints ==
    Changes("ai", [generate_communication_draft |-> "communication.draft"])
    \cup Reads("ai", {"communication.draft"})

\* api/v1/endpoints/ai_report_card.py
AiReportCardEndpoints ==
    Changes("report_card", [generate_report_card_remarks |-> "edit_remarks",
        apply_report_card_remarks |-> "edit_remarks"])
    \cup Reads("report_card", {"edit_remarks"})

\* api/v1/endpoints/ai_risk.py
AiRiskEndpoints ==
    Changes("ai", [assess_student_risk |-> "risk.view", assess_section_risk |-> "risk.view"])
    \cup Reads("ai", {"risk.view"})

\* api/v1/endpoints/ai_timetable.py
AiTimetableEndpoints ==
    Changes("ai", [generate_timetable_draft |-> "timetable.generate",
        approve_timetable_draft |-> "timetable.generate"])
    \cup Reads("ai", {"timetable.generate"})
    \cup Changes("timetable", [publish_timetable_draft |-> "publish"])

\* api/v1/endpoints/attendance.py
AttendanceEndpoints ==
    Changes("attendance", [create_attendance |-> "create",
        create_bulk_attendance |-> "create"])

AttendanceEndpointsRest ==
    OwnReads("attendance", {"view"})

AttendanceEndpointsLast ==
    Changes("attendance", [update_attendance |-> "update", delete_attendance |-> "delete"])

\* api/v1/endpoints/audit_logs.py
AuditLogsEndpoints ==
    Reads("school", {"view"})

\* api/v1/endpoints/class_progression_rule.py
ClassProgressionRuleEndpoints ==
    Changes("progression_matrix", [create_class_progression_rule |-> "manage",
        update_class_progression_rule |-> "manage"])
    \cup Reads("progression_matrix", {"view"})

ClassProgressionRuleEndpointsRest ==
    Changes("progression_matrix", [delete_class_progression_rule |-> "manage"])

\* api/v1/endpoints/classroom.py
ClassroomEndpoints ==
    Changes("timetable", [create_classroom |-> "create", update_classroom |-> "update",
        delete_classroom |-> "delete"])
    \cup Reads("timetable", {"view"})

\* api/v1/endpoints/dashboard.py
DashboardEndpoints ==
    Reads("school", {"view"})

\* api/v1/endpoints/data_export.py
DataExportStudents ==
    Reads("student", {"export"})
    \cup Reads("teacher", {"export"})
    \cup Reads("parent", {"export"})

DataExportAttendance ==
    OwnReads("attendance", {"export"})
    \cup OwnReads("fees", {"export"})

DataExportExamResults ==
    OwnReads("marks", {"view"})

\* api/v1/endpoints/data_import.py
DataImportStudentOnboarding ==
    Reads("student", {"create"})
    \cup Changes("student", [commit_student_onboarding |-> "create"])
    \cup Imports({"read"})

DataImportCommitEntityOnboarding ==
    Imports({"commit_entity_onboarding", "bulk_import"})

\* api/v1/endpoints/documents.py
DocumentsDocument ==
    Changes("documents", [upload_document |-> "upload"])
    \cup OwnReads("documents", {"view"})
    \cup Reads("documents", {"download", "update", "view"})

DocumentsDocumentRest ==
    Reads("documents", {"download"})
    \cup Changes("documents", [update_document |-> "update", replace_document |-> "upload",
             verify_document |-> "verify", reject_document |-> "verify", delete_document |-> "delete"])

\* api/v1/endpoints/evaluation_config.py
EvaluationConfigEndpoints ==
    Changes("evaluation_config", [create_evaluation_config |-> "create"])
    \cup Reads("evaluation_config", {"view"})

\* api/v1/endpoints/events.py
EventsEvent ==
    Changes("events", [create_event |-> "create", update_event |-> "update",
        publish_event |-> "publish"])
    \cup Reads("events", {"view"})

EventsCancelEvent ==
    Changes("events", [cancel_event |-> "delete", delete_event |-> "delete"])

\* api/v1/endpoints/exam.py
ExamEndpoints ==
    Changes("exam", [create_exam |-> "create", update_exam |-> "update",
        delete_exam |-> "delete"])
    \cup Reads("exam", {"view"})

\* api/v1/endpoints/exam_schedule.py
ExamScheduleEndpoints ==
    Changes("exam", [create_exam_schedule |-> "create", update_exam_schedule |-> "update",
        delete_exam_schedule |-> "delete"])
    \cup Reads("exam", {"view"})

\* api/v1/endpoints/fees.py
FeeStructureEndpoints ==
    Changes("fees", [create_fee_structure |-> "create", update_fee_structure |-> "update"])
    \cup Reads("fees", {"create", "view"})

FeeStructureEndpointsRest ==
    Changes("fees", [delete_fee_structure |-> "delete", assign_fee_structure |-> "create"])
    \cup OwnReads("fees", {"view"})

FeesStudentFeeAssignment ==
    Changes("fees", [delete_student_fee_assignment |-> "delete",
        add_student_fee_item |-> "update", add_fee_discount |-> "update",
        remove_fee_discount |-> "update", cancel_student_fee_assignment |-> "update",
        record_payment |-> "create"])

FeesFeePayments ==
    Reads("fees", {"create"})
    \cup OwnReads("fees", {"view"})
    \cup Changes("fees", [open_cash_drawer_session |-> "create"])

FeesCashDrawerSession ==
    Changes("fees", [close_cash_drawer_session |-> "create"])

\* api/v1/endpoints/grading_scale.py
GradingScaleGradeScale ==
    Changes("grading", [create_grade_scale |-> "manage", update_grade_scale |-> "manage"])
    \cup Reads("grading", {"view"})

GradingScaleGradeScaleRest ==
    Changes("grading", [delete_grade_scale |-> "manage"])

\* api/v1/endpoints/homework.py
HomeworkEndpoints ==
    Changes("homework", [create_homework |-> "create", update_homework |-> "update",
        publish_homework |-> "publish"])
    \cup OwnReads("homework", {"view"})
    \cup Reads("homework", {"create", "view"})

HomeworkEndpointsRest ==
    Changes("homework", [close_homework |-> "update", delete_homework |-> "delete",
        submit_homework |-> "submit", grade_submission |-> "grade"])
    \cup OwnReads("homework", {"view"})

\* api/v1/endpoints/hostel.py
HostelBuilding ==
    Changes("hostel", [create_building |-> "create", update_building |-> "update",
        create_room |-> "create", create_bed |-> "create", allocate_student |-> "allocate",
        release_allocation |-> "allocate"])
    \cup Reads("hostel", {"view"})

HostelAllocations ==
    OwnReads("hostel", {"view"})
    \cup Changes("hostel", [record_hostel_attendance |-> "attendance",
             approve_outpass |-> "outpass.approve", checkout_outpass |-> "outpass.approve",
             return_outpass |-> "outpass.approve"])
    \cup OwnChanges("hostel", [create_outpass |-> "outpass.create"])

HostelOutpasses ==
    OwnReads("hostel", {"outpass.view", "view"})
    \cup Changes("hostel", [create_fee_structure |-> "fees.manage",
             allocate_fee_to_student |-> "fees.manage", record_fee_payment |-> "fees.manage"])
    \cup Reads("hostel", {"view"})

\* api/v1/endpoints/inventory.py
InventoryCategory ==
    Changes("inventory", [create_category |-> "create", update_category |-> "update",
        delete_category |-> "delete", create_location |-> "create"])
    \cup Reads("inventory", {"view"})

InventoryLocations ==
    Reads("inventory", {"view"})
    \cup Changes("inventory", [update_location |-> "update", delete_location |-> "delete",
             create_vendor |-> "create"])

InventoryVendor ==
    Reads("inventory", {"view"})
    \cup Changes("inventory", [update_vendor |-> "update", delete_vendor |-> "delete",
             create_item |-> "create"])

InventoryItem ==
    Changes("inventory", [update_item |-> "update", delete_item |-> "delete"])
    \cup Reads("inventory", {"view"})

InventoryStock ==
    Changes("inventory", [receive_stock |-> "create", issue_stock |-> "issue",
        return_stock |-> "issue", adjust_stock |-> "manage", transfer_stock |-> "transfer"])
    \cup Reads("inventory", {"view"})

InventoryMovement ==
    Reads("inventory", {"view"})
    \cup Changes("inventory", [create_asset |-> "create", update_asset |-> "update",
             delete_asset |-> "delete"])

InventoryRetireAsset ==
    Changes("inventory", [retire_asset |-> "manage", assign_asset |-> "issue",
        return_asset |-> "issue"])
    \cup Reads("inventory", {"view"})

InventoryTransferAssetAssignment ==
    Changes("inventory", [transfer_asset_assignment |-> "transfer"])

\* api/v1/endpoints/jobs.py
JobsEndpoints ==
    OwnReads("school", {"view"})
    \cup OwnChanges("school", [retry_job |-> "update", cancel_job |-> "update"])

\* api/v1/endpoints/library.py
LibraryLibraries ==
    Reads("library", {"view"})
    \cup Changes("library", [create_library |-> "create", update_library |-> "update",
             delete_library |-> "delete"])

LibraryCategory ==
    Changes("library", [create_category |-> "create", update_category |-> "update",
        delete_category |-> "delete", create_book |-> "create"])
    \cup Reads("library", {"view"})

LibraryBook ==
    Reads("library", {"view"})
    \cup Changes("library", [update_book |-> "update", delete_book |-> "delete",
             create_book_copy |-> "create"])

LibraryBookCopy ==
    Changes("library", [update_book_copy |-> "update", delete_book_copy |-> "delete",
        create_member |-> "manage", update_member |-> "manage"])
    \cup Reads("library", {"view"})

LibraryMember ==
    Changes("library", [delete_member |-> "manage", checkout_book |-> "circulate",
        return_book |-> "circulate", renew_loan |-> "circulate"])

LibraryLoans ==
    OwnReads("library", {"view"})
    \cup Changes("library", [create_reservation |-> "circulate"])

LibraryCancelReservation ==
    Changes("library", [cancel_reservation |-> "circulate", create_fine |-> "manage",
        waive_fine |-> "manage"])
    \cup Reads("library", {"view"})

LibraryFines ==
    Reads("library", {"view"})

\* api/v1/endpoints/notifications.py
NotificationsUserInbox ==
    Reads("notification", {"view"})
    \cup Changes("notification", [mark_notification_read |-> "view",
             mark_all_notifications_read |-> "view", get_user_preferences |-> "view",
             update_user_preferences |-> "view", get_school_communication_config |-> "view",
             update_school_communication_config |-> "manage"])

NotificationsWhatsappWebhook ==
    Anyone({"process_whatsapp_webhook"})

NotificationsEndpoints ==
    OwnReads("notification", {"view"})
    \cup Reads("notification", {"view"})

NotificationsProviderStatuses ==
    Reads("notification", {"delivery.view", "view"})
    \cup Changes("notification", [create_template |-> "template.manage",
             send_announcement |-> "send", batch_send_notifications_async |-> "send"])

NotificationsNotificationDetail ==
    Reads("notification", {"view"})
    \cup Changes("notification", [retry_notification |-> "send"])

\* api/v1/endpoints/parent.py
ParentEndpoints ==
    Changes("parent", [create_parent |-> "create", update_parent |-> "update",
        delete_parent |-> "delete"])
    \cup Reads("parent", {"view"})

\* api/v1/endpoints/payments.py
PaymentsPaymentConfig ==
    Reads("fees", {"view"})
    \cup Changes("fees", [update_payment_config |-> "update"])
    \cup SignedIn({"create_payment_order", "verify_payment"})
    \cup Anyone({"handle_razorpay_webhook"})

PaymentsStripeWebhook ==
    Anyone({"handle_stripe_webhook", "handle_payment_webhook"})

\* api/v1/endpoints/period_slot.py
PeriodSlotEndpoints ==
    Changes("timetable", [create_period_slot |-> "create", update_period_slot |-> "update",
        delete_period_slot |-> "delete"])
    \cup Reads("timetable", {"view"})

\* api/v1/endpoints/reception_analytics.py
ReceptionAnalyticsEndpoints ==
    Reads("reception", {"view"})

\* api/v1/endpoints/reception_inquiries.py
ReceptionInquiriesEndpoints ==
    Changes("reception", [create_inquiry |-> "create", update_inquiry |-> "update"])
    \cup Reads("reception", {"view"})

\* api/v1/endpoints/report_card.py
ReportCardsEndpoints ==
    Changes("report_card", [generate_report_cards |-> "generate"])
    \cup OwnReads("report_card", {"view"})

ReportCardRemarksEndpoints ==
    Changes("report_card", [update_report_card_remarks |-> "edit_remarks",
        finalize_report_card |-> "finalize", publish_report_card |-> "publish",
        batch_generate_report_cards_async |-> "generate",
        batch_generate_report_cards |-> "generate", batch_finalize_report_cards |-> "finalize"])
    \cup Reads("report_card", {"generate"})

\* api/v1/endpoints/reports.py
ReportsExecutiveSummary ==
    Reads("reports", {"view"})

ReportsAcademicReport ==
    Reads("reports", {"export", "view"})

\* api/v1/endpoints/school.py
SchoolOnboardSchoolTenant ==
    PlatformChanges("school", [onboard_school_tenant |-> "create",
        create_school |-> "create"])
    \cup Reads("school", {"view"})

SchoolEndpoints ==
    Changes("school", [update_school |-> "update"])
    \cup PlatformChanges("school", [update_school_status |-> "update",
             update_school_subscription |-> "update", delete_school |-> "delete"])

\* api/v1/endpoints/school_class.py
SchoolClassEndpoints ==
    Changes("class", [create_school_class |-> "create", update_school_class |-> "update"])
    \cup Reads("class", {"view"})

SchoolClassEndpointsRest ==
    Changes("class", [delete_school_class |-> "delete"])

\* api/v1/endpoints/staff_leave.py
StaffLeaveLeaveTypes ==
    Reads("staff_leave", {"balance.view", "report.view", "view"})
    \cup Changes("staff_leave", [create_leave_type |-> "manage", update_leave_type |-> "manage",
             allocate_leave_balance |-> "manage", create_leave_request |-> "create"])

StaffLeaveLeaveRequests ==
    Reads("staff_leave", {"view"})
    \cup Changes("staff_leave", [approve_leave_request |-> "approve",
             reject_leave_request |-> "reject", cancel_leave_request |-> "cancel"])

\* api/v1/endpoints/student_certificate.py
StudentCertificateEndpoints ==
    Changes("student", [issue_transfer_certificate |-> "tc.create",
        issue_bonafide_certificate |-> "certificate.create"])
    \cup OwnReads("student", {"tc.view"})

\* api/v1/endpoints/student_exam_result.py
StudentExamResultEndpoints ==
    Changes("exam", [create_student_exam_result |-> "create"])
    \cup OwnReads("exam", {"view"})

StudentExamResultEndpointsRest ==
    Changes("exam", [update_student_exam_result |-> "update",
        delete_student_exam_result |-> "delete"])

\* api/v1/endpoints/subject.py
SubjectEndpoints ==
    Changes("subject", [create_subject |-> "create", update_subject |-> "update",
        delete_subject |-> "delete"])
    \cup Reads("subject", {"view"})

\* api/v1/endpoints/teacher_attendance.py
TeacherAttendanceEndpoints ==
    Reads("teacher_attendance", {"view"})
    \cup Changes("teacher_attendance", [bulk_mark_teacher_attendance |-> "create",
             update_teacher_attendance |-> "update"])
    \cup SignedIn({"teacher_check_in", "teacher_check_out"})

\* api/v1/endpoints/teacher_cockpit.py
TeacherCockpitEndpoints ==
    Reads("teacher_cockpit", {"view"})

\* api/v1/endpoints/teacher_substitution.py
TeacherSubstitutionAffectedSlots ==
    Reads("substitution", {"view"})
    \cup Changes("substitution", [auto_assign_substitutions |-> "create",
             create_teacher_substitution |-> "create"])

TeacherSubstitutionEndpoints ==
    Changes("substitution", [update_teacher_substitution |-> "update",
        delete_teacher_substitution |-> "delete"])

\* api/v1/endpoints/timetable.py
TimetableEndpoints ==
    Changes("timetable", [create_timetable |-> "create", publish_timetable |-> "publish"])
    \cup Reads("timetable", {"view"})

TimetableArchiveTimetable ==
    Changes("timetable", [archive_timetable |-> "archive",
        create_timetable_entry |-> "create"])
    \cup Reads("timetable", {"view"})

\* api/v1/endpoints/timetable_entry.py
TimetableEntryEndpoints ==
    Changes("timetable", [update_timetable_entry |-> "update",
        delete_timetable_entry |-> "delete"])

\* api/v1/endpoints/transport.py
TransportVehicles ==
    Reads("transport", {"view"})
    \cup Changes("transport", [create_vehicle |-> "create", update_vehicle |-> "update"])

TransportVehicle ==
    Changes("transport", [delete_vehicle |-> "delete", create_driver |-> "create"])
    \cup Reads("transport", {"view"})

TransportDriver ==
    Changes("transport", [update_driver |-> "update", delete_driver |-> "delete",
        create_route |-> "create"])
    \cup Reads("transport", {"view"})

TransportRoute ==
    Reads("transport", {"view"})
    \cup Changes("transport", [update_route |-> "update", delete_route |-> "delete"])

TransportStop ==
    Changes("transport", [create_stop |-> "create", update_stop |-> "update",
        delete_stop |-> "delete"])
    \cup Reads("transport", {"view"})

TransportAllocations ==
    Reads("transport", {"view"})
    \cup Changes("transport", [allocate_student |-> "allocate", update_allocation |-> "allocate"])

TransportAllocationStatus ==
    Changes("transport", [update_allocation_status |-> "allocate",
        delete_allocation |-> "delete"])
    \cup Reads("transport", {"view"})

\* api/v1/endpoints/visitors.py
VisitorsPreRegisterVisitor ==
    Changes("visitors", [pre_register_visitor |-> "checkin", check_in_visitor |-> "checkin",
        quick_check_in_visitor |-> "checkin", check_out_visitor |-> "checkout"])
    \cup Reads("visitors", {"view"})

VisitorsVisitor ==
    Reads("visitors", {"view"})

\* identity/api/auth.py
AuthEndpoints ==
    Anyone({"login", "refresh_token", "forgot_password", "reset_password"})
    \cup SignedIn({"logout"})

\* identity/api/permissions.py
PermissionsEndpoints ==
    PlatformChanges("permission", [create_permission |-> "create",
        update_permission |-> "update", delete_permission |-> "delete"])
    \cup Reads("permission", {"view"})

\* identity/api/role_permissions.py
RolePermissionsEndpoints ==
    Changes("role_permission", [assign_permission |-> "assign",
        remove_permission |-> "remove"])
    \cup Reads("role_permission", {"view"})

\* identity/api/roles.py
RolesEndpoints ==
    Changes("role", [create_role |-> "create", update_role |-> "update",
        delete_role |-> "delete"])
    \cup Reads("role", {"view"})

\* identity/api/seed.py
SeedEndpoints ==
    Changes("permission", [seed_identity_data |-> "create"])

\* identity/api/user_roles.py
UserRolesEndpoints ==
    Changes("user_role", [assign_role |-> "assign", remove_role |-> "remove"])
    \cup Reads("user_role", {"view"})

\* identity/api/users.py
UsersEndpoints ==
    Changes("user", [create_user |-> "create", update_user |-> "update",
        update_user_status |-> "update", delete_user |-> "delete"])
    \cup Reads("user", {"view"})

Endpoint == UNION {
    SectionEndpoints, SectionEndpointsRest, StudentEndpoints, StudentEndpointsRest,
    StudentPromotionStudentEnrollments, StudentPromotionBulkRetainStudents,
    TeacherEndpoints, TeacherEndpointsRest, AcademicTermEndpoints,
    AcademicYearCurrentAcademicYear, AcademicYearEndpoints, AcademicYearProgressionRollover,
    AdmissionsAdmissionCycle, AdmissionsApplicants, AdmissionsAdmissionApplications,
    AdmissionsWithdrawAdmissionApplication, AiEndpoints, AiCommunicationEndpoints,
    AiReportCardEndpoints, AiRiskEndpoints, AiTimetableEndpoints, AttendanceEndpoints,
    AttendanceEndpointsRest, AttendanceEndpointsLast, AuditLogsEndpoints,
    ClassProgressionRuleEndpoints, ClassProgressionRuleEndpointsRest, ClassroomEndpoints,
    DashboardEndpoints, DataExportStudents, DataExportAttendance, DataExportExamResults,
    DataImportStudentOnboarding, DataImportCommitEntityOnboarding, DocumentsDocument,
    DocumentsDocumentRest, EvaluationConfigEndpoints, EventsEvent, EventsCancelEvent,
    ExamEndpoints, ExamScheduleEndpoints, FeeStructureEndpoints, FeeStructureEndpointsRest,
    FeesStudentFeeAssignment, FeesFeePayments, FeesCashDrawerSession,
    GradingScaleGradeScale, GradingScaleGradeScaleRest, HomeworkEndpoints,
    HomeworkEndpointsRest, HostelBuilding, HostelAllocations, HostelOutpasses,
    InventoryCategory, InventoryLocations, InventoryVendor, InventoryItem, InventoryStock,
    InventoryMovement, InventoryRetireAsset, InventoryTransferAssetAssignment,
    JobsEndpoints, LibraryLibraries, LibraryCategory, LibraryBook, LibraryBookCopy,
    LibraryMember, LibraryLoans, LibraryCancelReservation, LibraryFines,
    NotificationsUserInbox, NotificationsWhatsappWebhook, NotificationsEndpoints,
    NotificationsProviderStatuses, NotificationsNotificationDetail, ParentEndpoints,
    PaymentsPaymentConfig, PaymentsStripeWebhook, PeriodSlotEndpoints,
    ReceptionAnalyticsEndpoints, ReceptionInquiriesEndpoints, ReportCardsEndpoints,
    ReportCardRemarksEndpoints, ReportsExecutiveSummary, ReportsAcademicReport,
    SchoolOnboardSchoolTenant, SchoolEndpoints, SchoolClassEndpoints,
    SchoolClassEndpointsRest, StaffLeaveLeaveTypes, StaffLeaveLeaveRequests,
    StudentCertificateEndpoints, StudentExamResultEndpoints, StudentExamResultEndpointsRest,
    SubjectEndpoints, TeacherAttendanceEndpoints, TeacherCockpitEndpoints,
    TeacherSubstitutionAffectedSlots, TeacherSubstitutionEndpoints, TimetableEndpoints,
    TimetableArchiveTimetable, TimetableEntryEndpoints, TransportVehicles, TransportVehicle,
    TransportDriver, TransportRoute, TransportStop, TransportAllocations,
    TransportAllocationStatus, VisitorsPreRegisterVisitor, VisitorsVisitor, AuthEndpoints,
    PermissionsEndpoints, RolePermissionsEndpoints, RolesEndpoints, SeedEndpoints,
    UserRolesEndpoints, UsersEndpoints}
=============================================================================
