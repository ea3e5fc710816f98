----------------------------- MODULE GlueCalls ------------------------------

(***************************************************************************)
(* The calls between the Flutter app and the library, as each half of the  *)
(* generated glue encodes them: the arguments Dart writes and Rust reads,  *)
(* the result and the error Rust writes and Dart reads (frb_generated.rs,  *)
(* the functions wire__; frb_generated.dart, the methods of                *)
(* RustLibApiImpl), and the callbacks Rust makes and Dart answers (the     *)
(* functions decode_DartFn_ and encode_DartFn_).                           *)
(***************************************************************************)
EXTENDS GlueShapes

(* A call whose arguments and result are bytes (SseCodec). *)
ByBytes(args, result, error) ==
    [codec |-> "sse", args |-> args, result |-> result, error |-> error]

(* A call whose result is a value of Dart (DcoCodec); its arguments are C structs, left out. *)
ByValue(result, error) ==
    [codec |-> "dco", args |-> << >>, result |-> result, error |-> error]

(* A callback: the types of its arguments, of its answer and of its failure. *)
Calls(args, answer, error) == [args |-> args, answer |-> answer, error |-> error]

(***************************************************************************)
(* The Rust half.                                                          *)
(***************************************************************************)
RustCallsCancelTokenCancel ==
       "CancelToken_cancel" :> ByValue("()", "none")
    @@ "CancelToken_get_child" :> ByValue("CancelToken", "none")
    @@ "CancelToken_is_cancelled" :> ByValue("bool", "none")
    @@ "CancelToken_new" :> ByValue("CancelToken", "none")

RustCallsExtensionClientInit ==
       "ExtensionClient_init" :> ByBytes(<< <<"loadData", "fn String -> String">>,
            <<"storeData", "fn String_String -> unit">>,
            <<"loadDataSecure", "fn String -> String">>,
            <<"storeDataSecure", "fn String_String -> unit">>,
            <<"doAction", "fn action -> unit">>,
            <<"requestPermission", "fn permission_opt_String -> bool">>,
            <<"getPath", "fn -> String">>,
            <<"setEntrySetting", "fn entry_id_String_setting_value -> unit">>,
            <<"storeSet", "fn String_String -> unit">> >>, "ExtensionClient", "none")
    @@ "ManagerClient_init" :> ByBytes(<< <<"getPath", "fn -> String">>,
            <<"getClient", "fn extension_data -> ExtensionClient">> >>, "ManagerClient",
            "none")
    @@ "ProxyAdapter_browse_repo" :> ByValue("RemoteExtensionResult", "anyhow::Error")

RustCallsProxyAdapterGetExtensions ==
       "ProxyAdapter_get_extensions" :> ByValue("Vec<ProxyExtension>", "anyhow::Error")
    @@ "ProxyAdapter_get_repo" :> ByValue("ExtensionRepo", "anyhow::Error")
    @@ "ProxyAdapter_init_dion" :> ByValue("ProxyAdapter", "anyhow::Error")

RustCallsProxyAdapterInitMihon ==
       "ProxyAdapter_init_mihon" :> ByValue("ProxyAdapter", "anyhow::Error")
    @@ "ProxyAdapter_install" :> ByValue("ProxyExtension", "anyhow::Error")

RustCallsProxyAdapterUninstall ==
       "ProxyAdapter_uninstall" :> ByValue("()", "anyhow::Error")
    @@ "ProxyExtension_browse" :> ByBytes(<< <<"that", "RustOpaqueNom<ProxyExtension>">>,
            <<"page", "i32">>, <<"token", "Option<CancelToken>">> >>, "EntryList",
            "anyhow::Error")

RustCallsProxyExtensionClearCache ==
       "ProxyExtension_clear_cache" :> ByValue("()", "anyhow::Error")
    @@ "ProxyExtension_detail" :> ByBytes(<< <<"that", "RustOpaqueNom<ProxyExtension>">>,
            <<"entryid", "EntryId">>, <<"settings", "HashMap<String, Setting>">>,
            <<"token", "Option<CancelToken>">> >>, "EntryDetailedResult", "anyhow::Error")

RustCallsProxyExtensionEvent ==
       "ProxyExtension_event" :> ByBytes(<< <<"that", "RustOpaqueNom<ProxyExtension>">>,
            <<"event", "EventData">>, <<"token", "Option<CancelToken>">> >>,
            "Option<EventResult>", "anyhow::Error")
    @@ "ProxyExtension_get_accounts" :> ByBytes(<< <<"that", "RustOpaqueNom<ProxyExtension>">> >>,
            "Vec<Account>", "none")

RustCallsProxyExtensionGetExtensionData ==
       "ProxyExtension_get_extension_data" :> ByBytes(<< <<"that", "RustOpaqueNom<ProxyExtension>">> >>,
            "ExtensionData", "anyhow::Error")
    @@ "ProxyExtension_get_permissions" :> ByBytes(<< <<"that", "RustOpaqueNom<ProxyExtension>">> >>,
            "Vec<Permission>", "anyhow::Error")

RustCallsProxyExtensionGetSetting ==
       "ProxyExtension_get_setting" :> ByBytes(<< <<"that", "RustOpaqueNom<ProxyExtension>">>,
            <<"id", "String">>, <<"kind", "SettingKind">> >>, "Setting", "anyhow::Error")
    @@ "ProxyExtension_get_setting_ids" :> ByBytes(<< <<"that", "RustOpaqueNom<ProxyExtension>">>,
            <<"kind", "SettingKind">> >>, "Vec<String>", "none")

RustCallsProxyExtensionGetSettings ==
       "ProxyExtension_get_settings" :> ByBytes(<< <<"that", "RustOpaqueNom<ProxyExtension>">>,
            <<"kind", "SettingKind">> >>, "HashMap<String, Setting>", "anyhow::Error")
    @@ "ProxyExtension_grant_permissions" :> ByBytes(<< <<"that", "RustOpaqueNom<ProxyExtension>">>,
            <<"permissions", "Vec<Permission>">> >>, "()", "anyhow::Error")

RustCallsProxyExtensionHandleUrl ==
       "ProxyExtension_handle_url" :> ByValue("bool", "anyhow::Error")
    @@ "ProxyExtension_has_permission" :> ByBytes(<< <<"that", "RustOpaqueNom<ProxyExtension>">>,
            <<"permission", "Permission">> >>, "bool", "none")

RustCallsProxyExtensionInvalidate ==
       "ProxyExtension_invalidate" :> ByValue("()", "none")
    @@ "ProxyExtension_is_enabled" :> ByValue("bool", "none")
    @@ "ProxyExtension_is_logged_in" :> ByValue("bool", "none")

RustCallsProxyExtensionMapEntry ==
       "ProxyExtension_map_entry" :> ByBytes(<< <<"that", "RustOpaqueNom<ProxyExtension>">>,
            <<"entry", "EntryDetailed">>, <<"settings", "HashMap<String, Setting>">>,
            <<"token", "Option<CancelToken>">> >>, "EntryDetailedResult", "anyhow::Error")
    @@ "ProxyExtension_map_source" :> ByBytes(<< <<"that", "RustOpaqueNom<ProxyExtension>">>,
            <<"source", "Source">>, <<"epid", "EpisodeId">>,
            <<"settings", "HashMap<String, Setting>">>,
            <<"token", "Option<CancelToken>">> >>, "SourceResult", "anyhow::Error")

RustCallsProxyExtensionMergeAuth ==
       "ProxyExtension_merge_auth" :> ByValue("()", "none")
    @@ "ProxyExtension_merge_setting_definition" :> ByBytes(<< <<"that", "RustOpaqueNom<ProxyExtension>">>,
            <<"id", "String">>, <<"kind", "SettingKind">>, <<"definition", "Setting">> >>,
            "()", "anyhow::Error")

RustCallsProxyExtensionOnEntryActivity ==
       "ProxyExtension_on_entry_activity" :> ByBytes(<< <<"that", "RustOpaqueNom<ProxyExtension>">>,
            <<"activity", "EntryActivity">>, <<"entry", "EntryDetailed">>,
            <<"settings", "HashMap<String, Setting>">>,
            <<"token", "Option<CancelToken>">> >>, "()", "anyhow::Error")
    @@ "ProxyExtension_refresh" :> ByBytes(<< <<"that", "RustOpaqueNom<ProxyExtension>">>,
            <<"entry", "EntryDetailed">>, <<"settings", "HashMap<String, Setting>">>,
            <<"token", "Option<CancelToken>">> >>, "EntryDetailedResult", "anyhow::Error")

RustCallsProxyExtensionReload ==
       "ProxyExtension_reload" :> ByValue("()", "anyhow::Error")
    @@ "ProxyExtension_remove_permission" :> ByBytes(<< <<"that", "RustOpaqueNom<ProxyExtension>">>,
            <<"permission", "Permission">> >>, "()", "anyhow::Error")

RustCallsProxyExtensionRemoveSetting ==
       "ProxyExtension_remove_setting" :> ByBytes(<< <<"that", "RustOpaqueNom<ProxyExtension>">>,
            <<"id", "String">>, <<"kind", "SettingKind">> >>, "()", "anyhow::Error")
    @@ "ProxyExtension_save_auth_state" :> ByValue("()", "anyhow::Error")

RustCallsProxyExtensionSavePermissions ==
       "ProxyExtension_save_permissions" :> ByValue("()", "anyhow::Error")
    @@ "ProxyExtension_save_settings" :> ByValue("()", "anyhow::Error")

RustCallsProxyExtensionSearch ==
       "ProxyExtension_search" :> ByBytes(<< <<"that", "RustOpaqueNom<ProxyExtension>">>,
            <<"page", "i32">>, <<"filter", "String">>,
            <<"token", "Option<CancelToken>">> >>, "EntryList", "anyhow::Error")
    @@ "ProxyExtension_set_enabled" :> ByValue("()", "anyhow::Error")

RustCallsProxyExtensionSetSetting ==
       "ProxyExtension_set_setting" :> ByBytes(<< <<"that", "RustOpaqueNom<ProxyExtension>">>,
            <<"id", "String">>, <<"kind", "SettingKind">>, <<"value", "SettingValue">> >>,
            "()", "anyhow::Error")
    @@ "ProxyExtension_source" :> ByBytes(<< <<"that", "RustOpaqueNom<ProxyExtension>">>,
            <<"epid", "EpisodeId">>, <<"settings", "HashMap<String, Setting>">>,
            <<"token", "Option<CancelToken>">> >>, "SourceResult", "anyhow::Error")

RustCallsProxyExtensionStorageUsage ==
       "ProxyExtension_storage_usage" :> ByBytes(<< <<"that", "RustOpaqueNom<ProxyExtension>">> >>,
            "StorageUsage", "anyhow::Error")
    @@ "ProxyExtension_validate" :> ByBytes(<< <<"that", "RustOpaqueNom<ProxyExtension>">>,
            <<"account", "Account">>, <<"token", "Option<CancelToken>">> >>,
            "Option<Account>", "anyhow::Error")
    @@ "alignment_default" :> ByValue("Alignment", "none")

RustCallsButtonTypeDefault ==
       "button_type_default" :> ByValue("ButtonType", "none")
    @@ "color_token_default" :> ByValue("ColorToken", "none")
    @@ "container_type_default" :> ByValue("ContainerType", "none")
    @@ "cross_axis_alignment_default" :> ByValue("CrossAxisAlignment", "none")
    @@ "edge_insets_default" :> ByValue("EdgeInsets", "none")
    @@ "entry_list_default" :> ByValue("EntryList", "none")
    @@ "extension_data_default" :> ByValue("ExtensionData", "none")

RustCallsExtensionManagerDataDefault ==
       "extension_manager_data_default" :> ByValue("ExtensionManagerData", "none")
    @@ "extension_repo_default" :> ByValue("ExtensionRepo", "none")
    @@ "lets_init_app_here" :> ByValue("()", "none")
    @@ "link_default" :> ByValue("Link", "none")
    @@ "main_axis_alignment_default" :> ByValue("MainAxisAlignment", "none")
    @@ "main_axis_size_default" :> ByValue("MainAxisSize", "none")
    @@ "media_type_default" :> ByValue("MediaType", "none")

RustCallsReleaseStatusDefault ==
       "release_status_default" :> ByValue("ReleaseStatus", "none")
    @@ "remote_extension_default" :> ByValue("RemoteExtension", "none")
    @@ "remote_extension_result_default" :> ByValue("RemoteExtensionResult", "none")
    @@ "source_open_type_default" :> ByValue("SourceOpenType", "none")
    @@ "stack_fit_default" :> ByValue("StackFit", "none")
    @@ "storage_usage_default" :> ByValue("StorageUsage", "none")
    @@ "text_style_default" :> ByValue("TextStyle", "none")

RustCallsTimestampTypeDefault ==
       "timestamp_type_default" :> ByValue("TimestampType", "none")
    @@ "toast_kind_default" :> ByValue("ToastKind", "none")
    @@ "wrap_alignment_default" :> ByValue("WrapAlignment", "none")

RustCallbacksStrings ==
       "fn String -> String" :> Calls(<< "String" >>, "String", "anyhow::Error")
    @@ "fn String_String -> unit" :> Calls(<< "String", "String" >>, "()", "anyhow::Error")
    @@ "fn -> String" :> Calls(<< >>, "String", "anyhow::Error")
    @@ "fn action -> unit" :> Calls(<< "Action" >>, "()", "anyhow::Error")

RustCallbacksData ==
       "fn entry_id_String_setting_value -> unit" :> Calls(<< "EntryId", "String",
            "SettingValue" >>, "()", "anyhow::Error")
    @@ "fn extension_data -> ExtensionClient" :> Calls(<< "ExtensionData" >>, "ExtensionClient",
            "anyhow::Error")
    @@ "fn permission_opt_String -> bool" :> Calls(<< "Permission", "Option<String>" >>, "bool",
            "anyhow::Error")

(***************************************************************************)
(* The Dart half.                                                          *)
(***************************************************************************)
DartCallsCancelTokenCancel ==
       "CancelToken_cancel" :> ByValue("unit", "none")
    @@ "CancelToken_get_child" :> ByValue("Auto_Owned_CancelToken", "none")
    @@ "CancelToken_is_cancelled" :> ByValue("bool", "none")
    @@ "CancelToken_new" :> ByValue("Auto_Owned_CancelToken", "none")

DartCallsExtensionClientInit ==
       "ExtensionClient_init" :> ByBytes(<< <<"loadData", "fn String -> String">>,
            <<"storeData", "fn String_String -> unit">>,
            <<"loadDataSecure", "fn String -> String">>,
            <<"storeDataSecure", "fn String_String -> unit">>,
            <<"doAction", "fn action -> unit">>,
            <<"requestPermission", "fn permission_opt_String -> bool">>,
            <<"getPath", "fn -> String">>,
            <<"setEntrySetting", "fn entry_id_String_setting_value -> unit">>,
            <<"storeSet", "fn String_String -> unit">> >>, "Auto_Owned_ExtensionClient",
            "none")
    @@ "ManagerClient_init" :> ByBytes(<< <<"getPath", "fn -> String">>,
            <<"getClient", "fn extension_data -> ExtensionClient">> >>,
            "Auto_Owned_ManagerClient", "none")
    @@ "ProxyAdapter_browse_repo" :> ByValue("remote_extension_result", "AnyhowException")

DartCallsProxyAdapterGetExtensions ==
       "ProxyAdapter_get_extensions" :> ByValue("list_Auto_Owned_ProxyExtension",
            "AnyhowException")
    @@ "ProxyAdapter_get_repo" :> ByValue("extension_repo", "AnyhowException")
    @@ "ProxyAdapter_init_dion" :> ByValue("Auto_Owned_ProxyAdapter", "AnyhowException")
    @@ "ProxyAdapter_init_mihon" :> ByValue("Auto_Owned_ProxyAdapter", "AnyhowException")
    @@ "ProxyAdapter_install" :> ByValue("Auto_Owned_ProxyExtension", "AnyhowException")

DartCallsProxyAdapterUninstall ==
       "ProxyAdapter_uninstall" :> ByValue("unit", "AnyhowException")
    @@ "ProxyExtension_browse" :> ByBytes(<< <<"that", "Auto_Ref_ProxyExtension">>,
            <<"page", "i_32">>, <<"token", "opt_box_autoadd_Auto_Owned_CancelToken">> >>,
            "entry_list", "AnyhowException")
    @@ "ProxyExtension_clear_cache" :> ByValue("unit", "AnyhowException")
    @@ "ProxyExtension_detail" :> ByBytes(<< <<"that", "Auto_Ref_ProxyExtension">>,
            <<"entryid", "box_autoadd_entry_id">>,
            <<"settings", "Map_String_setting_None">>,
            <<"token", "opt_box_autoadd_Auto_Owned_CancelToken">> >>,
            "entry_detailed_result", "AnyhowException")
    @@ "ProxyExtension_event" :> ByBytes(<< <<"that", "Auto_Ref_ProxyExtension">>,
            <<"event", "box_autoadd_event_data">>,
            <<"token", "opt_box_autoadd_Auto_Owned_CancelToken">> >>,
            "opt_box_autoadd_event_result", "AnyhowException")

DartCallsProxyExtensionGetAccounts ==
       "ProxyExtension_get_accounts" :> ByBytes(<< <<"that", "Auto_Ref_ProxyExtension">> >>,
            "list_account", "none")
    @@ "ProxyExtension_get_extension_data" :> ByBytes(<< <<"that", "Auto_Ref_ProxyExtension">> >>,
            "extension_data", "AnyhowException")
    @@ "ProxyExtension_get_permissions" :> ByBytes(<< <<"that", "Auto_Ref_ProxyExtension">> >>,
            "list_permission", "AnyhowException")
    @@ "ProxyExtension_get_setting" :> ByBytes(<< <<"that", "Auto_Ref_ProxyExtension">>,
            <<"id", "String">>, <<"kind", "setting_kind">> >>, "setting", "AnyhowException")
    @@ "ProxyExtension_get_setting_ids" :> ByBytes(<< <<"that", "Auto_Ref_ProxyExtension">>,
            <<"kind", "setting_kind">> >>, "list_String", "none")

DartCallsProxyExtensionGetSettings ==
       "ProxyExtension_get_settings" :> ByBytes(<< <<"that", "Auto_Ref_ProxyExtension">>,
            <<"kind", "setting_kind">> >>, "Map_String_setting_None", "AnyhowException")
    @@ "ProxyExtension_grant_permissions" :> ByBytes(<< <<"that", "Auto_Ref_ProxyExtension">>,
            <<"permissions", "list_permission">> >>, "unit", "AnyhowException")
    @@ "ProxyExtension_handle_url" :> ByValue("bool", "AnyhowException")
    @@ "ProxyExtension_has_permission" :> ByBytes(<< <<"that", "Auto_Ref_ProxyExtension">>,
            <<"permission", "box_autoadd_permission">> >>, "bool", "none")
    @@ "ProxyExtension_invalidate" :> ByValue("unit", "none")

DartCallsProxyExtensionIsEnabled ==
       "ProxyExtension_is_enabled" :> ByValue("bool", "none")
    @@ "ProxyExtension_is_logged_in" :> ByValue("bool", "none")
    @@ "ProxyExtension_map_entry" :> ByBytes(<< <<"that", "Auto_Ref_ProxyExtension">>,
            <<"entry", "box_autoadd_entry_detailed">>,
            <<"settings", "Map_String_setting_None">>,
            <<"token", "opt_box_autoadd_Auto_Owned_CancelToken">> >>,
            "entry_detailed_result", "AnyhowException")
    @@ "ProxyExtension_map_source" :> ByBytes(<< <<"that", "Auto_Ref_ProxyExtension">>,
            <<"source", "box_autoadd_source">>, <<"epid", "box_autoadd_episode_id">>,
            <<"settings", "Map_String_setting_None">>,
            <<"token", "opt_box_autoadd_Auto_Owned_CancelToken">> >>, "source_result",
            "AnyhowException")
    @@ "ProxyExtension_merge_auth" :> ByValue("unit", "none")

DartCallsProxyExtensionMergeSettingDefinition ==
       "ProxyExtension_merge_setting_definition" :> ByBytes(<< <<"that", "Auto_Ref_ProxyExtension">>,
            <<"id", "String">>, <<"kind", "setting_kind">>,
            <<"definition", "box_autoadd_setting">> >>, "unit", "AnyhowException")
    @@ "ProxyExtension_on_entry_activity" :> ByBytes(<< <<"that", "Auto_Ref_ProxyExtension">>,
            <<"activity", "box_autoadd_entry_activity">>,
            <<"entry", "box_autoadd_entry_detailed">>,
            <<"settings", "Map_String_setting_None">>,
            <<"token", "opt_box_autoadd_Auto_Owned_CancelToken">> >>, "unit",
            "AnyhowException")
    @@ "ProxyExtension_refresh" :> ByBytes(<< <<"that", "Auto_Ref_ProxyExtension">>,
            <<"entry", "box_autoadd_entry_detailed">>,
            <<"settings", "Map_String_setting_None">>,
            <<"token", "opt_box_autoadd_Auto_Owned_CancelToken">> >>,
            "entry_detailed_result", "AnyhowException")
    @@ "ProxyExtension_reload" :> ByValue("unit", "AnyhowException")

DartCallsProxyExtensionRemovePermission ==
       "ProxyExtension_remove_permission" :> ByBytes(<< <<"that", "Auto_Ref_ProxyExtension">>,
            <<"permission", "box_autoadd_permission">> >>, "unit", "AnyhowException")
    @@ "ProxyExtension_remove_setting" :> ByBytes(<< <<"that", "Auto_Ref_ProxyExtension">>,
            <<"id", "String">>, <<"kind", "setting_kind">> >>, "unit", "AnyhowException")
    @@ "ProxyExtension_save_auth_state" :> ByValue("unit", "AnyhowException")
    @@ "ProxyExtension_save_permissions" :> ByValue("unit", "AnyhowException")
    @@ "ProxyExtension_save_settings" :> ByValue("unit", "AnyhowException")

DartCallsProxyExtensionSearch ==
       "ProxyExtension_search" :> ByBytes(<< <<"that", "Auto_Ref_ProxyExtension">>,
            <<"page", "i_32">>, <<"filter", "String">>,
            <<"token", "opt_box_autoadd_Auto_Owned_CancelToken">> >>, "entry_list",
            "AnyhowException")
    @@ "ProxyExtension_set_enabled" :> ByValue("unit", "AnyhowException")
    @@ "ProxyExtension_set_setting" :> ByBytes(<< <<"that", "Auto_Ref_ProxyExtension">>,
            <<"id", "String">>, <<"kind", "setting_kind">>,
            <<"value", "box_autoadd_setting_value">> >>, "unit", "AnyhowException")
    @@ "ProxyExtension_source" :> ByBytes(<< <<"that", "Auto_Ref_ProxyExtension">>,
            <<"epid", "box_autoadd_episode_id">>, <<"settings", "Map_String_setting_None">>,
            <<"token", "opt_box_autoadd_Auto_Owned_CancelToken">> >>, "source_result",
            "AnyhowException")

DartCallsProxyExtensionStorageUsage ==
       "ProxyExtension_storage_usage" :> ByBytes(<< <<"that", "Auto_Ref_ProxyExtension">> >>,
            "storage_usage", "AnyhowException")
    @@ "ProxyExtension_validate" :> ByBytes(<< <<"that", "Auto_Ref_ProxyExtension">>,
            <<"account", "box_autoadd_account">>,
            <<"token", "opt_box_autoadd_Auto_Owned_CancelToken">> >>,
            "opt_box_autoadd_account", "AnyhowException")
    @@ "alignment_default" :> ByValue("alignment", "none")
    @@ "button_type_default" :> ByValue("button_type", "none")
    @@ "color_token_default" :> ByValue("color_token", "none")
    @@ "container_type_default" :> ByValue("container_type", "none")

DartCallsCrossAxisAlignmentDefault ==
       "cross_axis_alignment_default" :> ByValue("cross_axis_alignment", "none")
    @@ "edge_insets_default" :> ByValue("edge_insets", "none")
    @@ "entry_list_default" :> ByValue("entry_list", "none")
    @@ "extension_data_default" :> ByValue("extension_data", "none")
    @@ "extension_manager_data_default" :> ByValue("extension_manager_data", "none")
    @@ "extension_repo_default" :> ByValue("extension_repo", "none")

DartCallsLetsInitAppHere ==
       "lets_init_app_here" :> ByValue("unit", "none")
    @@ "link_default" :> ByValue("link", "none")
    @@ "main_axis_alignment_default" :> ByValue("main_axis_alignment", "none")
    @@ "main_axis_size_default" :> ByValue("main_axis_size", "none")
    @@ "media_type_default" :> ByValue("media_type", "none")
    @@ "release_status_default" :> ByValue("release_status", "none")

DartCallsRemoteExtensionDefault ==
       "remote_extension_default" :> ByValue("remote_extension", "none")
    @@ "remote_extension_result_default" :> ByValue("remote_extension_result", "none")
    @@ "source_open_type_default" :> ByValue("source_open_type", "none")
    @@ "stack_fit_default" :> ByValue("stack_fit", "none")
    @@ "storage_usage_default" :> ByValue("storage_usage", "none")
    @@ "text_style_default" :> ByValue("text_style", "none")

DartCallsTimestampTypeDefault ==
       "timestamp_type_default" :> ByValue("timestamp_type", "none")
    @@ "toast_kind_default" :> ByValue("toast_kind", "none")
    @@ "wrap_alignment_default" :> ByValue("wrap_alignment", "none")

DartCallbacksStrings ==
       "fn String -> String" :> Calls(<< "String" >>, "String", "AnyhowException")
    @@ "fn String_String -> unit" :> Calls(<< "String", "String" >>, "unit", "AnyhowException")
    @@ "fn -> String" :> Calls(<< >>, "String", "AnyhowException")
    @@ "fn action -> unit" :> Calls(<< "action" >>, "unit", "AnyhowException")

DartCallbacksData ==
       "fn entry_id_String_setting_value -> unit" :> Calls(<< "entry_id", "String",
            "setting_value" >>, "unit", "AnyhowException")
    @@ "fn extension_data -> ExtensionClient" :> Calls(<< "extension_data" >>,
            "Auto_Owned_ExtensionClient", "AnyhowException")
    @@ "fn permission_opt_String -> bool" :> Calls(<< "permission", "opt_String" >>, "bool",
            "AnyhowException")

(***************************************************************************)
(* The whole tables.                                                       *)
(***************************************************************************)
RustCalls ==
    RustCallsCancelTokenCancel @@ RustCallsExtensionClientInit
    @@ RustCallsProxyAdapterGetExtensions @@ RustCallsProxyAdapterInitMihon
    @@ RustCallsProxyAdapterUninstall @@ RustCallsProxyExtensionClearCache
    @@ RustCallsProxyExtensionEvent @@ RustCallsProxyExtensionGetExtensionData
    @@ RustCallsProxyExtensionGetSetting @@ RustCallsProxyExtensionGetSettings
    @@ RustCallsProxyExtensionHandleUrl @@ RustCallsProxyExtensionInvalidate
    @@ RustCallsProxyExtensionMapEntry @@ RustCallsProxyExtensionMergeAuth
    @@ RustCallsProxyExtensionOnEntryActivity @@ RustCallsProxyExtensionReload
    @@ RustCallsProxyExtensionRemoveSetting @@ RustCallsProxyExtensionSavePermissions
    @@ RustCallsProxyExtensionSearch @@ RustCallsProxyExtensionSetSetting
    @@ RustCallsProxyExtensionStorageUsage @@ RustCallsButtonTypeDefault
    @@ RustCallsExtensionManagerDataDefault @@ RustCallsReleaseStatusDefault
    @@ RustCallsTimestampTypeDefault

DartCalls ==
    DartCallsCancelTokenCancel @@ DartCallsExtensionClientInit
    @@ DartCallsProxyAdapterGetExtensions @@ DartCallsProxyAdapterUninstall
    @@ DartCallsProxyExtensionGetAccounts @@ DartCallsProxyExtensionGetSettings
    @@ DartCallsProxyExtensionIsEnabled @@ DartCallsProxyExtensionMergeSettingDefinition
    @@ DartCallsProxyExtensionRemovePermission @@ DartCallsProxyExtensionSearch
    @@ DartCallsProxyExtensionStorageUsage @@ DartCallsCrossAxisAlignmentDefault
    @@ DartCallsLetsInitAppHere @@ DartCallsRemoteExtensionDefault
    @@ DartCallsTimestampTypeDefault

RustCallbacks ==
    RustCallbacksStrings @@ RustCallbacksData

DartCallbacks ==
    DartCallbacksStrings @@ DartCallbacksData
=============================================================================
