------------------------------ MODULE DartSse -------------------------------

(***************************************************************************)
(* How the Dart half of the generated Flutter glue reads and writes the    *)
(* bytes of the "SSE" codec (frb_generated.dart, the functions sse_encode_  *)
(* and sse_decode_), laid out as in RustSse.  Types carry the names of     *)
(* the Dart functions; names Dart reserves are written as in Rust          *)
(* (default, not default_).                                                *)
(***************************************************************************)
EXTENDS GlueShapes

(***************************************************************************)
(* Reading: the functions sse_decode_.                                     *)
(***************************************************************************)
DartReadsAnyhowException ==
       "AnyhowException" :> Wraps("String")
    @@ "Auto_Owned_CancelToken" :> Fields(<< <<"ptr", "usize">>, <<"size", "i_32">> >>)
    @@ "Auto_Owned_ExtensionClient" :> Fields(<< <<"ptr", "usize">>, <<"size", "i_32">> >>)
    @@ "Auto_Owned_ManagerClient" :> Fields(<< <<"ptr", "usize">>, <<"size", "i_32">> >>)
    @@ "Auto_Owned_ProxyAdapter" :> Fields(<< <<"ptr", "usize">>, <<"size", "i_32">> >>)
    @@ "Auto_Owned_ProxyExtension" :> Fields(<< <<"ptr", "usize">>, <<"size", "i_32">> >>)
    @@ "Auto_RefMut_ProxyExtension" :> Fields(<< <<"ptr", "usize">>, <<"size", "i_32">> >>)
    @@ "Auto_Ref_CancelToken" :> Fields(<< <<"ptr", "usize">>, <<"size", "i_32">> >>)
    @@ "Auto_Ref_ManagerClient" :> Fields(<< <<"ptr", "usize">>, <<"size", "i_32">> >>)
    @@ "Auto_Ref_ProxyAdapter" :> Fields(<< <<"ptr", "usize">>, <<"size", "i_32">> >>)
    @@ "Auto_Ref_ProxyExtension" :> Fields(<< <<"ptr", "usize">>, <<"size", "i_32">> >>)
    @@ "Chrono_Utc" :> Fields(<< <<"microseconds", "i_64">> >>)
    @@ "DartOpaque" :> Wraps("isize")
    @@ "Map_String_String_None" :> Wraps("list_record_string_string")
    @@ "Map_String_list_String_None" :> Wraps("list_record_string_list_string")
    @@ "Map_String_setting_None" :> Wraps("list_record_string_setting")
    @@ "Map_String_slot_value_None" :> Wraps("list_record_string_slot_value")
    @@ "CancelToken" :> Fields(<< <<"ptr", "usize">>, <<"size", "i_32">> >>)

DartReadsExtensionClient ==
       "ExtensionClient" :> Fields(<< <<"ptr", "usize">>, <<"size", "i_32">> >>)
    @@ "ManagerClient" :> Fields(<< <<"ptr", "usize">>, <<"size", "i_32">> >>)
    @@ "ProxyAdapter" :> Fields(<< <<"ptr", "usize">>, <<"size", "i_32">> >>)
    @@ "ProxyExtension" :> Fields(<< <<"ptr", "usize">>, <<"size", "i_32">> >>)
    @@ "Set_extension_type_None" :> Wraps("list_extension_type")
    @@ "Set_media_type_None" :> Wraps("list_media_type")
    @@ "Set_source_open_type_None" :> Wraps("list_source_open_type")
    @@ "Set_source_type_None" :> Wraps("list_source_type")
    @@ "String" :> Wraps("list_prim_u_8_strict")
    @@ "account" :> Fields(<< <<"domain", "String">>, <<"userName", "opt_String">>, <<"cover", "opt_String">>,
          <<"auth", "auth_data">>, <<"creds", "opt_box_autoadd_auth_creds">> >>)
    @@ "action" :> OneOf(<<
        << "OpenBrowser", << <<"url", "String">> >> >>,
        << "Popup", << <<"title", "String">>, <<"content", "box_custom_ui">>,
            <<"actions", "list_popup_action">> >> >>,
        << "Nav", << <<"title", "String">>, <<"content", "box_custom_ui">> >> >>,
        << "PopView", << >> >>,
        << "NavEntry", << <<"entry", "box_entry_detailed">> >> >>,
        << "ShowToast", << <<"message", "String">>, <<"kind", "toast_kind">> >> >> >>)
    @@ "alignment" :> Units(<< "Center", "TopLeft", "TopCenter", "TopRight", "CenterLeft", "CenterRight",
          "BottomLeft", "BottomCenter", "BottomRight" >>)

DartReadsAuthCreds ==
       "auth_creds" :> OneOf(<<
        << "Cookies", << <<"cookies", "Map_String_list_String_None">> >> >>,
        << "ApiKey", << <<"key", "String">> >> >>,
        << "UserPass", << <<"username", "String">>, <<"password", "String">> >> >>,
        << "OAuth", << <<"accessToken", "String">>, <<"refreshToken", "opt_String">>,
            <<"expiresAt", "opt_box_autoadd_u_32">> >> >> >>)
    @@ "auth_data" :> OneOf(<<
        << "Cookie", << <<"loginpage", "String">>, <<"logonpage", "String">> >> >>,
        << "ApiKey", << >> >>,
        << "UserPass", << >> >>,
        << "OAuth", << <<"authorizationUrl", "String">>, <<"tokenUrl", "opt_String">>,
            <<"clientId", "String">>, <<"clientSecret", "String">>,
            <<"scope", "opt_String">> >> >> >>)
    @@ "bool" :> Plain("u8") @@ "box_action" :> Wraps("action")
    @@ "box_autoadd_Auto_Owned_CancelToken" :> Wraps("Auto_Owned_CancelToken")
    @@ "box_autoadd_Chrono_Utc" :> Wraps("Chrono_Utc")
    @@ "box_autoadd_account" :> Wraps("account")
    @@ "box_autoadd_alignment" :> Wraps("alignment")
    @@ "box_autoadd_auth_creds" :> Wraps("auth_creds")
    @@ "box_autoadd_bool" :> Wraps("bool")
    @@ "box_autoadd_button_type" :> Wraps("button_type")
    @@ "box_autoadd_chapter_kind" :> Wraps("chapter_kind")
    @@ "box_autoadd_color_token" :> Wraps("color_token")
    @@ "box_autoadd_container_type" :> Wraps("container_type")
    @@ "box_autoadd_cross_axis_alignment" :> Wraps("cross_axis_alignment")
    @@ "box_autoadd_custom_ui" :> Wraps("custom_ui")

DartReadsBoxAutoaddEdgeInsets ==
       "box_autoadd_edge_insets" :> Wraps("edge_insets")
    @@ "box_autoadd_entry" :> Wraps("entry")
    @@ "box_autoadd_entry_activity" :> Wraps("entry_activity")
    @@ "box_autoadd_entry_detailed" :> Wraps("entry_detailed")
    @@ "box_autoadd_entry_id" :> Wraps("entry_id")
    @@ "box_autoadd_episode_id" :> Wraps("episode_id")
    @@ "box_autoadd_event_data" :> Wraps("event_data")
    @@ "box_autoadd_event_result" :> Wraps("event_result")
    @@ "box_autoadd_extension_repo" :> Wraps("extension_repo")
    @@ "box_autoadd_f_32" :> Wraps("f_32") @@ "box_autoadd_f_64" :> Wraps("f_64")
    @@ "box_autoadd_i_32" :> Wraps("i_32") @@ "box_autoadd_link" :> Wraps("link")
    @@ "box_autoadd_main_axis_alignment" :> Wraps("main_axis_alignment")
    @@ "box_autoadd_main_axis_size" :> Wraps("main_axis_size")
    @@ "box_autoadd_permission" :> Wraps("permission")
    @@ "box_autoadd_setting" :> Wraps("setting")
    @@ "box_autoadd_setting_value" :> Wraps("setting_value")
    @@ "box_autoadd_settings_ui" :> Wraps("settings_ui")
    @@ "box_autoadd_source" :> Wraps("source") @@ "box_autoadd_stack_fit" :> Wraps("stack_fit")
    @@ "box_autoadd_text_style" :> Wraps("text_style")
    @@ "box_autoadd_u_32" :> Wraps("u_32")
    @@ "box_autoadd_wrap_alignment" :> Wraps("wrap_alignment")

DartReadsBoxCustomUi ==
       "box_custom_ui" :> Wraps("custom_ui")
    @@ "box_entry_detailed" :> Wraps("entry_detailed")
    @@ "box_interaction" :> Wraps("interaction")
    @@ "button_type" :> Units(<< "Filled", "Ghost", "Elevated" >>)
    @@ "chapter" :> Fields(<< <<"title", "String">>, <<"start", "f_64">>, <<"end", "opt_box_autoadd_f_64">>,
          <<"kind", "opt_box_autoadd_chapter_kind">> >>)
    @@ "chapter_kind" :> Units(<< "Intro", "Outro", "Recap", "Filler", "Preview" >>)
    @@ "color_token" :> Units(<< "Primary", "OnPrimary", "PrimaryContainer", "OnPrimaryContainer", "Secondary",
          "OnSecondary", "Surface", "OnSurface", "SurfaceContainer",
          "SurfaceContainerHighest", "Error", "OnError", "Disabled", "Shadow" >>)
    @@ "container_type" :> Units(<< "Ghost", "Filled", "Outlined" >>)
    @@ "cross_axis_alignment" :> Units(<< "Start", "Center", "End", "Stretch", "Baseline" >>)

DartReadsCustomUIText == <<
    << "Text", << <<"text", "String">>, <<"style", "opt_box_autoadd_text_style">> >> >>,
    << "Image", << <<"image", "box_autoadd_link">>, <<"width", "opt_box_autoadd_i_32">>,
        <<"height", "opt_box_autoadd_i_32">> >> >>,
    << "Link", << <<"link", "String">>, <<"label", "opt_String">> >> >>,
    << "Timestamp", << <<"timestamp", "Chrono_Utc">>, <<"display", "timestamp_type">> >> >>,
    << "EntryCard", << <<"entry", "box_autoadd_entry">> >> >>,
    << "Card", << <<"image", "box_autoadd_link">>, <<"top", "box_custom_ui">>,
        <<"bottom", "box_custom_ui">>, <<"onClick", "opt_box_interaction">> >> >>,
    << "Spinner", << >> >>,
    << "Feed", << <<"handler", "String">>, <<"data", "String">> >> >>,
    << "Button", << <<"label", "String">>, <<"onClick", "opt_box_interaction">>,
        <<"buttonType", "opt_box_autoadd_button_type">>,
        <<"color", "opt_box_autoadd_color_token">> >> >>,
    << "InlineSetting", << <<"settingId", "String">>, <<"settingKind", "setting_kind">>,
        <<"onCommit", "opt_box_interaction">> >> >>,
    << "Slot", << <<"handler", "String">>, <<"child", "box_custom_ui">>,
        <<"staticData", "String">>, <<"subscriptions", "list_subscription">> >> >>,
    << "Column", << <<"children", "list_custom_ui">>,
        <<"mainAxisAlignment", "opt_box_autoadd_main_axis_alignment">>,
        <<"crossAxisAlignment", "opt_box_autoadd_cross_axis_alignment">>,
        <<"mainAxisSize", "opt_box_autoadd_main_axis_size">>, <<"scrollable", "bool">> >> >>,
    << "Row", << <<"children", "list_custom_ui">>,
        <<"mainAxisAlignment", "opt_box_autoadd_main_axis_alignment">>,
        <<"crossAxisAlignment", "opt_box_autoadd_cross_axis_alignment">>,
        <<"mainAxisSize", "opt_box_autoadd_main_axis_size">>, <<"scrollable", "bool">> >> >>,
    << "TextInput", << <<"onChange", "opt_box_interaction">>,
        <<"debounceMs", "opt_box_autoadd_i_32">>, <<"initial", "opt_String">>,
        <<"onCommit", "opt_box_interaction">> >> >>,
    << "Padding", << <<"padding", "box_autoadd_edge_insets">>,
        <<"child", "box_custom_ui">> >> >>,
    << "Container", << <<"child", "box_custom_ui">>,
        <<"containerType", "opt_box_autoadd_container_type">>,
        <<"color", "opt_box_autoadd_color_token">>,
        <<"borderColor", "opt_box_autoadd_color_token">>,
        <<"padding", "opt_box_autoadd_edge_insets">>, <<"width", "opt_box_autoadd_f_32">>,
        <<"height", "opt_box_autoadd_f_32">>, <<"alignment", "opt_box_autoadd_alignment">>,
        <<"emphasized", "opt_box_autoadd_bool">> >> >> >>

DartReadsCustomUIClickable == <<
    << "Clickable", << <<"child", "box_custom_ui">>, <<"onClick", "opt_box_interaction">>,
        <<"onLongClick", "opt_box_interaction">> >> >>,
    << "Expanded", << <<"child", "box_custom_ui">>, <<"flex", "i_32">> >> >>,
    << "SizedBox", << <<"width", "opt_box_autoadd_f_32">>,
        <<"height", "opt_box_autoadd_f_32">>, <<"child", "opt_box_custom_ui">> >> >>,
    << "Spacer", << <<"flex", "i_32">> >> >>,
    << "Wrap", << <<"children", "list_custom_ui">>, <<"spacing", "opt_box_autoadd_f_32">>,
        <<"runSpacing", "opt_box_autoadd_f_32">>,
        <<"alignment", "opt_box_autoadd_wrap_alignment">> >> >>,
    << "Center", << <<"child", "box_custom_ui">> >> >>,
    << "Align", << <<"alignment", "alignment">>, <<"child", "box_custom_ui">> >> >>,
    << "Stack", << <<"children", "list_custom_ui">>,
        <<"alignment", "opt_box_autoadd_alignment">>,
        <<"fit", "opt_box_autoadd_stack_fit">> >> >>,
    << "Divider", << >> >>,
    << "ListTile", << <<"leading", "opt_box_custom_ui">>, <<"title", "opt_box_custom_ui">>,
        <<"subtitle", "opt_box_custom_ui">>, <<"trailing", "opt_box_custom_ui">>,
        <<"onClick", "opt_box_interaction">>, <<"onLongClick", "opt_box_interaction">> >> >>,
    << "Badge", << <<"child", "box_custom_ui">>,
        <<"color", "opt_box_autoadd_color_token">> >> >>,
    << "FoldableText", << <<"text", "String">>, <<"maxLines", "i_32">>,
        <<"style", "opt_box_autoadd_text_style">>, <<"animate", "bool">> >> >>,
    << "StarDisplay", << <<"fill", "f_32">>, <<"maxStars", "i_32">> >> >>,
    << "Dropdown", << <<"items", "list_dropdown_item">>, <<"initialValue", "opt_String">>,
        <<"onChange", "opt_box_interaction">> >> >> >>

DartReadsCustomUI == "custom_ui" :> OneOf(DartReadsCustomUIText \o DartReadsCustomUIClickable)

DartReadsDropdownItem ==
       "dropdown_item" :> Fields(<< <<"value", "String">>, <<"label", "String">> >>)
    @@ "dropdown_option" :> Fields(<< <<"label", "String">>, <<"value", "String">> >>)
    @@ "edge_insets" :> Fields(<< <<"left", "opt_box_autoadd_f_32">>, <<"top", "opt_box_autoadd_f_32">>,
          <<"right", "opt_box_autoadd_f_32">>, <<"bottom", "opt_box_autoadd_f_32">> >>)
    @@ "entry" :> Fields(<< <<"id", "entry_id">>, <<"url", "String">>, <<"title", "String">>,
          <<"mediaType", "media_type">>, <<"cover", "opt_box_autoadd_link">>,
          <<"author", "opt_list_String">>, <<"rating", "opt_box_autoadd_f_32">>,
          <<"views", "opt_box_autoadd_f_32">>, <<"length", "opt_box_autoadd_i_32">> >>)
    @@ "entry_activity" :> OneOf(<<
        << "EpisodeActivity", << <<"progress", "i_32">> >> >> >>)
    @@ "entry_detailed" :> Fields(<< <<"id", "entry_id">>, <<"url", "String">>, <<"titles", "list_String">>,
          <<"author", "opt_list_String">>, <<"ui", "opt_box_autoadd_custom_ui">>,
          <<"meta", "opt_Map_String_String_None">>, <<"mediaType", "media_type">>,
          <<"status", "release_status">>, <<"description", "String">>,
          <<"language", "String">>, <<"cover", "opt_box_autoadd_link">>,
          <<"poster", "opt_box_autoadd_link">>, <<"episodes", "list_episode">>,
          <<"genres", "opt_list_String">>, <<"rating", "opt_box_autoadd_f_32">>,
          <<"views", "opt_box_autoadd_f_32">>, <<"length", "opt_box_autoadd_i_32">> >>)
    @@ "entry_detailed_result" :> Fields(<< <<"entry", "entry_detailed">>,
          <<"settings", "Map_String_setting_None">> >>)
    @@ "entry_id" :> Fields(<< <<"uid", "String">>, <<"iddata", "opt_String">> >>)
    @@ "entry_list" :> Fields(<< <<"hasnext", "opt_box_autoadd_bool">>, <<"length", "opt_box_autoadd_i_32">>,
          <<"content", "list_entry">> >>)
    @@ "episode" :> Fields(<< <<"id", "episode_id">>, <<"name", "String">>, <<"description", "opt_String">>,
          <<"url", "String">>, <<"cover", "opt_box_autoadd_link">>,
          <<"timestamp", "opt_box_autoadd_Chrono_Utc">>,
          <<"announced", "opt_box_autoadd_bool">> >>)

DartReadsEpisodeId ==
       "episode_id" :> Fields(<< <<"uid", "String">>, <<"iddata", "opt_String">> >>)
    @@ "event_data" :> OneOf(<<
        << "LoadSlot", << <<"handler", "String">>, <<"staticData", "String">>,
            <<"values", "Map_String_slot_value_None">> >> >>,
        << "LoadPage", << <<"handler", "String">>, <<"data", "String">>,
            <<"page", "i_32">> >> >>,
        << "Invoke", << <<"handler", "String">>, <<"payload", "String">> >> >> >>)
    @@ "event_result" :> OneOf(<<
        << "SlotContent", << <<"customui", "box_autoadd_custom_ui">> >> >>,
        << "FeedPage", << <<"items", "list_custom_ui">>, <<"hasMore", "bool">> >> >> >>)
    @@ "extension_data" :> Fields(<< <<"id", "String">>, <<"name", "String">>, <<"url", "String">>,
          <<"icon", "String">>, <<"desc", "opt_String">>, <<"author", "list_String">>,
          <<"tags", "list_String">>, <<"lang", "list_String">>, <<"nsfw", "bool">>,
          <<"mediaType", "Set_media_type_None">>,
          <<"extensionType", "Set_extension_type_None">>, <<"repo", "opt_String">>,
          <<"version", "String">>, <<"license", "String">>, <<"compatible", "bool">>,
          <<"permissions", "opt_list_permission">> >>)
    @@ "extension_kind" :> Units(<< "EntryProvider", "SourceProcessor", "EntryProcessor",
          "UrlHandler" >>)
    @@ "extension_manager_data" :> Fields(<< <<"name", "String">>, <<"icon", "opt_String">>, <<"repo", "opt_String">>,
          <<"apiVersion", "u_32">> >>)
    @@ "extension_repo" :> Fields(<< <<"remoteId", "String">>, <<"name", "String">>, <<"description", "String">>,
          <<"url", "String">> >>)

DartReadsExtensionType ==
       "extension_type" :> OneOf(<<
        << "EntryProvider", << <<"hasSearch", "bool">> >> >>,
        << "SourceProcessor", << <<"sourcetypes", "Set_source_type_None">>,
            <<"opentype", "Set_source_open_type_None">> >> >>,
        << "EntryProcessor", << <<"triggerMapEntry", "bool">>,
            <<"triggerOnEntryActivity", "bool">> >> >>,
        << "URLHandler", << <<"urlPatterns", "list_String">> >> >> >>)
    @@ "f_32" :> Plain("f32") @@ "f_64" :> Plain("f64") @@ "i_32" :> Plain("i32")
    @@ "i_64" :> Plain("64 bits")
    @@ "image_list_audio" :> Fields(<< <<"link", "link">>, <<"from", "i_32">>, <<"to", "i_32">> >>)
    @@ "interaction" :> OneOf(<<
        << "Invoke", << <<"handler", "String">>, <<"payload", "String">> >> >>,
        << "WriteKey", << <<"key", "String">>, <<"value", "String">> >> >> >>)
    @@ "isize" :> Plain("64 bits")
    @@ "link" :> Fields(<< <<"url", "String">>, <<"header", "opt_Map_String_String_None">> >>)
    @@ "list_Auto_Owned_ProxyExtension" :> ListOf("Auto_Owned_ProxyExtension")
    @@ "list_String" :> ListOf("String") @@ "list_account" :> ListOf("account")
    @@ "list_chapter" :> ListOf("chapter")

DartReadsListCustomUi ==
       "list_custom_ui" :> ListOf("custom_ui")
    @@ "list_dropdown_item" :> ListOf("dropdown_item")
    @@ "list_dropdown_option" :> ListOf("dropdown_option")
    @@ "list_entry" :> ListOf("entry") @@ "list_episode" :> ListOf("episode")
    @@ "list_extension_kind" :> ListOf("extension_kind")
    @@ "list_extension_type" :> ListOf("extension_type")
    @@ "list_image_list_audio" :> ListOf("image_list_audio")
    @@ "list_link" :> ListOf("link") @@ "list_media_type" :> ListOf("media_type")
    @@ "list_mixed_content" :> ListOf("mixed_content")
    @@ "list_paragraph" :> ListOf("paragraph")

DartReadsListPermission ==
       "list_permission" :> ListOf("permission")
    @@ "list_popup_action" :> ListOf("popup_action") @@ "list_prim_u_8_strict" :> ListOf("u_8")
    @@ "list_record_string_list_string" :> ListOf("record_string_list_string")
    @@ "list_record_string_setting" :> ListOf("record_string_setting")
    @@ "list_record_string_slot_value" :> ListOf("record_string_slot_value")
    @@ "list_record_string_string" :> ListOf("record_string_string")
    @@ "list_remote_extension" :> ListOf("remote_extension")
    @@ "list_row" :> ListOf("row")
    @@ "list_source_open_type" :> ListOf("source_open_type")
    @@ "list_source_type" :> ListOf("source_type")
    @@ "list_stream_source" :> ListOf("stream_source")

DartReadsListSubscription ==
       "list_subscription" :> ListOf("subscription") @@ "list_subtitles" :> ListOf("subtitles")
    @@ "main_axis_alignment" :> Units(<< "Start", "Center", "End", "SpaceBetween", "SpaceAround",
          "SpaceEvenly" >>)
    @@ "main_axis_size" :> Units(<< "Min", "Max" >>)
    @@ "media_type" :> Units(<< "Video", "Comic", "Audio", "Book", "Unknown" >>)
    @@ "mixed_content" :> OneOf(<<
        << "Text", << <<"content", "String">>,
            <<"style", "opt_box_autoadd_text_style">> >> >>,
        << "CustomUI", << <<"ui", "box_custom_ui">> >> >>,
        << "Table", << <<"columns", "list_row">> >> >> >>)
    @@ "opt_Map_String_String_None" :> Maybe("Map_String_String_None")
    @@ "opt_String" :> Maybe("String")
    @@ "opt_box_autoadd_Auto_Owned_CancelToken" :> Maybe("box_autoadd_Auto_Owned_CancelToken")
    @@ "opt_box_autoadd_Chrono_Utc" :> Maybe("box_autoadd_Chrono_Utc")
    @@ "opt_box_autoadd_account" :> Maybe("box_autoadd_account")
    @@ "opt_box_autoadd_alignment" :> Maybe("box_autoadd_alignment")
    @@ "opt_box_autoadd_auth_creds" :> Maybe("box_autoadd_auth_creds")

DartReadsOptBoxAutoaddBool ==
       "opt_box_autoadd_bool" :> Maybe("box_autoadd_bool")
    @@ "opt_box_autoadd_button_type" :> Maybe("box_autoadd_button_type")
    @@ "opt_box_autoadd_chapter_kind" :> Maybe("box_autoadd_chapter_kind")
    @@ "opt_box_autoadd_color_token" :> Maybe("box_autoadd_color_token")
    @@ "opt_box_autoadd_container_type" :> Maybe("box_autoadd_container_type")
    @@ "opt_box_autoadd_cross_axis_alignment" :> Maybe("box_autoadd_cross_axis_alignment")
    @@ "opt_box_autoadd_custom_ui" :> Maybe("box_autoadd_custom_ui")
    @@ "opt_box_autoadd_edge_insets" :> Maybe("box_autoadd_edge_insets")
    @@ "opt_box_autoadd_event_result" :> Maybe("box_autoadd_event_result")
    @@ "opt_box_autoadd_f_32" :> Maybe("box_autoadd_f_32")

DartReadsOptBoxAutoaddF64 ==
       "opt_box_autoadd_f_64" :> Maybe("box_autoadd_f_64")

DartReadsOptBoxAutoaddI32 ==
       "opt_box_autoadd_i_32" :> Maybe("box_autoadd_i_32")
    @@ "opt_box_autoadd_link" :> Maybe("box_autoadd_link")
    @@ "opt_box_autoadd_main_axis_alignment" :> Maybe("box_autoadd_main_axis_alignment")
    @@ "opt_box_autoadd_main_axis_size" :> Maybe("box_autoadd_main_axis_size")
    @@ "opt_box_autoadd_settings_ui" :> Maybe("box_autoadd_settings_ui")
    @@ "opt_box_autoadd_stack_fit" :> Maybe("box_autoadd_stack_fit")
    @@ "opt_box_autoadd_text_style" :> Maybe("box_autoadd_text_style")
    @@ "opt_box_autoadd_u_32" :> Maybe("box_autoadd_u_32")
    @@ "opt_box_autoadd_wrap_alignment" :> Maybe("box_autoadd_wrap_alignment")
    @@ "opt_box_custom_ui" :> Maybe("box_custom_ui")
    @@ "opt_box_interaction" :> Maybe("box_interaction")
    @@ "opt_list_String" :> Maybe("list_String") @@ "opt_list_chapter" :> Maybe("list_chapter")

DartReadsOptListImageListAudio ==
       "opt_list_image_list_audio" :> Maybe("list_image_list_audio")
    @@ "opt_list_permission" :> Maybe("list_permission")
    @@ "paragraph" :> OneOf(<<
        << "Text", << <<"content", "String">>,
            <<"style", "opt_box_autoadd_text_style">> >> >>,
        << "Mixed", << <<"content", "list_mixed_content">> >> >>,
        << "CustomUI", << <<"ui", "box_custom_ui">> >> >>,
        << "Table", << <<"columns", "list_row">> >> >> >>)
    @@ "permission" :> OneOf(<<
        << "Storage", << <<"path", "String">>, <<"write", "bool">> >> >>,
        << "Network", << <<"domains", "list_String">> >> >>,
        << "ActionPopup", << >> >>,
        << "ArbitraryNetwork", << >> >> >>)
    @@ "popup_action" :> Fields(<< <<"label", "String">>, <<"onclick", "box_action">> >>)
    @@ "record_string_list_string" :> Fields(<< <<"field0", "String">>,
          <<"field1", "list_String">> >>)
    @@ "record_string_setting" :> Fields(<< <<"field0", "String">>, <<"field1", "setting">> >>)
    @@ "record_string_slot_value" :> Fields(<< <<"field0", "String">>,
          <<"field1", "slot_value">> >>)
    @@ "record_string_string" :> Fields(<< <<"field0", "String">>, <<"field1", "String">> >>)
    @@ "release_status" :> Units(<< "Releasing", "Complete", "Unknown" >>)

DartReadsRemoteExtension ==
       "remote_extension" :> Fields(<< <<"remoteId", "String">>, <<"id", "String">>, <<"name", "String">>,
          <<"url", "String">>, <<"cover", "opt_box_autoadd_link">>, <<"version", "String">>,
          <<"compatible", "bool">>, <<"permissions", "opt_list_permission">>,
          <<"authors", "list_String">>, <<"lang", "list_String">>,
          <<"tags", "list_String">>, <<"nsfw", "bool">>,
          <<"mediaType", "Set_media_type_None">>,
          <<"extensionKinds", "list_extension_kind">> >>)
    @@ "remote_extension_result" :> Fields(<< <<"content", "list_remote_extension">>, <<"hasnext", "opt_box_autoadd_bool">>,
          <<"length", "opt_box_autoadd_i_32">> >>)
    @@ "row" :> Fields(<< <<"cells", "list_paragraph">> >>)
    @@ "setting" :> Fields(<< <<"label", "String">>, <<"value", "setting_value">>,
          <<"default", "setting_value">>, <<"visible", "bool">>,
          <<"ui", "opt_box_autoadd_settings_ui">> >>)
    @@ "setting_kind" :> Units(<< "Extension", "Search" >>)
    @@ "setting_value" :> OneOf(<<
        << "String", << <<"data", "String">> >> >>,
        << "Number", << <<"data", "f_32">> >> >>,
        << "Boolean", << <<"data", "bool">> >> >>,
        << "StringList", << <<"data", "list_String">> >> >> >>)
    @@ "settings_ui" :> OneOf(<<
        << "CheckBox", << >> >>,
        << "Slider", << <<"min", "f_64">>, <<"max", "f_64">>, <<"step", "i_32">> >> >>,
        << "Dropdown", << <<"options", "list_dropdown_option">> >> >>,
        << "MultiDropdown", << <<"options", "list_dropdown_option">> >> >>,
        << "Directory", << <<"write", "bool">> >> >>,
        << "CustomUI", << <<"ui", "box_autoadd_custom_ui">> >> >> >>)
    @@ "slot_value" :> OneOf(<<
        << "Setting", << <<"value", "box_autoadd_setting_value">> >> >>,
        << "Store", << <<"key", "String">>, <<"value", "String">> >> >> >>)

DartReadsSource ==
       "source" :> OneOf(<<
        << "Epub", << <<"link", "box_autoadd_link">> >> >>,
        << "Pdf", << <<"link", "box_autoadd_link">> >> >>,
        << "Imagelist", << <<"links", "list_link">>,
            <<"audio", "opt_list_image_list_audio">> >> >>,
        << "Video", << <<"sources", "list_stream_source">>, <<"sub", "list_subtitles">>,
            <<"chapters", "opt_list_chapter">> >> >>,
        << "Audio", << <<"sources", "list_stream_source">>,
            <<"chapters", "opt_list_chapter">> >> >>,
        << "Paragraphlist", << <<"paragraphs", "list_paragraph">>,
            <<"audio", "opt_list_image_list_audio">> >> >> >>)
    @@ "source_open_type" :> Units(<< "Download", "Stream" >>)
    @@ "source_result" :> Fields(<< <<"source", "source">>,
          <<"settings", "Map_String_setting_None">> >>)
    @@ "source_type" :> Units(<< "Epub", "Pdf", "Imagelist", "Video", "Audio", "Paragraphlist" >>)
    @@ "stack_fit" :> Units(<< "Loose", "Expand", "Passthrough" >>)
    @@ "storage_usage" :> Fields(<< <<"cache", "f_64">>, <<"extensionBytes", "f_64">>,
          <<"data", "f_64">> >>)
    @@ "stream_source" :> Fields(<< <<"name", "String">>, <<"lang", "String">>,
          <<"url", "link">> >>)
    @@ "subscription" :> Fields(<< <<"source", "subscription_source">>, <<"key", "String">>,
          <<"stateKey", "String">> >>)
    @@ "subscription_source" :> OneOf(<<
        << "Store", << >> >>,
        << "Setting", << <<"kind", "setting_kind">> >> >>,
        << "EntrySetting", << >> >> >>)
    @@ "subtitles" :> Fields(<< <<"title", "String">>, <<"lang", "String">>, <<"url", "link">> >>)
    @@ "text_style" :> Fields(<< <<"bold", "opt_box_autoadd_bool">>, <<"italic", "opt_box_autoadd_bool">>,
          <<"underline", "opt_box_autoadd_bool">>,
          <<"strikethrough", "opt_box_autoadd_bool">>, <<"code", "opt_box_autoadd_bool">>,
          <<"link", "opt_String">>, <<"fontSize", "opt_box_autoadd_i_32">> >>)
    @@ "timestamp_type" :> Units(<< "Relative", "Absolute" >>)

DartReadsToastKind ==
       "toast_kind" :> Units(<< "Info", "Success", "Warning", "Error" >>)
    @@ "u_32" :> Plain("u32") @@ "u_8" :> Plain("u8") @@ "unit" :> Fields(<< >>)
    @@ "usize" :> Plain("64 bits")
    @@ "wrap_alignment" :> Units(<< "Start", "Center", "End", "SpaceBetween", "SpaceAround",
          "SpaceEvenly" >>)

(***************************************************************************)
(* Writing: the functions sse_encode_.                                     *)
(***************************************************************************)
DartWritesAnyhowException ==
       "AnyhowException" :> Wraps("String") @@ "Auto_Owned_CancelToken" :> Wraps("usize")
    @@ "Auto_Owned_ExtensionClient" :> Wraps("usize")
    @@ "Auto_Owned_ManagerClient" :> Wraps("usize")
    @@ "Auto_Owned_ProxyAdapter" :> Wraps("usize")
    @@ "Auto_Owned_ProxyExtension" :> Wraps("usize")
    @@ "Auto_RefMut_ProxyExtension" :> Wraps("usize")
    @@ "Auto_Ref_CancelToken" :> Wraps("usize") @@ "Auto_Ref_ManagerClient" :> Wraps("usize")
    @@ "Auto_Ref_ProxyAdapter" :> Wraps("usize") @@ "Auto_Ref_ProxyExtension" :> Wraps("usize")
    @@ "Chrono_Utc" :> Fields(<< <<"microseconds", "i_64">> >>)
    @@ "fn String -> String" :> Callback("fn String -> String")
    @@ "fn String_String -> unit" :> Callback("fn String_String -> unit")
    @@ "fn -> String" :> Callback("fn -> String")
    @@ "fn action -> unit" :> Callback("fn action -> unit")

DartWritesFnEntryIdStringSettingValueUnit ==
       "fn entry_id_String_setting_value -> unit" :> Callback("fn entry_id_String_setting_value -> unit")
    @@ "fn extension_data -> ExtensionClient" :> Callback("fn extension_data -> ExtensionClient")
    @@ "fn permission_opt_String -> bool" :> Callback("fn permission_opt_String -> bool")
    @@ "DartOpaque" :> Wraps("isize")
    @@ "Map_String_String_None" :> Wraps("list_record_string_string")
    @@ "Map_String_list_String_None" :> Wraps("list_record_string_list_string")
    @@ "Map_String_setting_None" :> Wraps("list_record_string_setting")
    @@ "Map_String_slot_value_None" :> Wraps("list_record_string_slot_value")
    @@ "CancelToken" :> Wraps("usize") @@ "ExtensionClient" :> Wraps("usize")
    @@ "ManagerClient" :> Wraps("usize") @@ "ProxyAdapter" :> Wraps("usize")
    @@ "ProxyExtension" :> Wraps("usize")
    @@ "Set_extension_type_None" :> Wraps("list_extension_type")
    @@ "Set_media_type_None" :> Wraps("list_media_type")
    @@ "Set_source_open_type_None" :> Wraps("list_source_open_type")

DartWritesSetSourceTypeNone ==
       "Set_source_type_None" :> Wraps("list_source_type")
    @@ "String" :> Wraps("list_prim_u_8_strict")
    @@ "account" :> Fields(<< <<"domain", "String">>, <<"userName", "opt_String">>, <<"cover", "opt_String">>,
          <<"auth", "auth_data">>, <<"creds", "opt_box_autoadd_auth_creds">> >>)
    @@ "action" :> OneOf(<<
        << "OpenBrowser", << <<"url", "String">> >> >>,
        << "Popup", << <<"title", "String">>, <<"content", "box_custom_ui">>,
            <<"actions", "list_popup_action">> >> >>,
        << "Nav", << <<"title", "String">>, <<"content", "box_custom_ui">> >> >>,
        << "PopView", << >> >>,
        << "NavEntry", << <<"entry", "box_entry_detailed">> >> >>,
        << "ShowToast", << <<"message", "String">>, <<"kind", "toast_kind">> >> >> >>)
    @@ "alignment" :> Units(<< "Center", "TopLeft", "TopCenter", "TopRight", "CenterLeft", "CenterRight",
          "BottomLeft", "BottomCenter", "BottomRight" >>)
    @@ "auth_creds" :> OneOf(<<
        << "Cookies", << <<"cookies", "Map_String_list_String_None">> >> >>,
        << "ApiKey", << <<"key", "String">> >> >>,
        << "UserPass", << <<"username", "String">>, <<"password", "String">> >> >>,
        << "OAuth", << <<"accessToken", "String">>, <<"refreshToken", "opt_String">>,
            <<"expiresAt", "opt_box_autoadd_u_32">> >> >> >>)
    @@ "auth_data" :> OneOf(<<
        << "Cookie", << <<"loginpage", "String">>, <<"logonpage", "String">> >> >>,
        << "ApiKey", << >> >>,
        << "UserPass", << >> >>,
        << "OAuth", << <<"authorizationUrl", "String">>, <<"tokenUrl", "opt_String">>,
            <<"clientId", "String">>, <<"clientSecret", "String">>,
            <<"scope", "opt_String">> >> >> >>)
    @@ "bool" :> Plain("u8") @@ "box_action" :> Wraps("action")
    @@ "box_autoadd_Auto_Owned_CancelToken" :> Wraps("Auto_Owned_CancelToken")
    @@ "box_autoadd_Chrono_Utc" :> Wraps("Chrono_Utc")

DartWritesBoxAutoaddAccount ==
       "box_autoadd_account" :> Wraps("account")
    @@ "box_autoadd_alignment" :> Wraps("alignment")
    @@ "box_autoadd_auth_creds" :> Wraps("auth_creds")
    @@ "box_autoadd_bool" :> Wraps("bool")
    @@ "box_autoadd_button_type" :> Wraps("button_type")
    @@ "box_autoadd_chapter_kind" :> Wraps("chapter_kind")
    @@ "box_autoadd_color_token" :> Wraps("color_token")
    @@ "box_autoadd_container_type" :> Wraps("container_type")
    @@ "box_autoadd_cross_axis_alignment" :> Wraps("cross_axis_alignment")
    @@ "box_autoadd_custom_ui" :> Wraps("custom_ui")
    @@ "box_autoadd_edge_insets" :> Wraps("edge_insets")
    @@ "box_autoadd_entry" :> Wraps("entry")
    @@ "box_autoadd_entry_activity" :> Wraps("entry_activity")
    @@ "box_autoadd_entry_detailed" :> Wraps("entry_detailed")
    @@ "box_autoadd_entry_id" :> Wraps("entry_id")
    @@ "box_autoadd_episode_id" :> Wraps("episode_id")
    @@ "box_autoadd_event_data" :> Wraps("event_data")
    @@ "box_autoadd_event_result" :> Wraps("event_result")
    @@ "box_autoadd_extension_repo" :> Wraps("extension_repo")
    @@ "box_autoadd_f_32" :> Wraps("f_32") @@ "box_autoadd_f_64" :> Wraps("f_64")
    @@ "box_autoadd_i_32" :> Wraps("i_32")

DartWritesBoxAutoaddLink ==
       "box_autoadd_link" :> Wraps("link")
    @@ "box_autoadd_main_axis_alignment" :> Wraps("main_axis_alignment")
    @@ "box_autoadd_main_axis_size" :> Wraps("main_axis_size")
    @@ "box_autoadd_permission" :> Wraps("permission")
    @@ "box_autoadd_setting" :> Wraps("setting")
    @@ "box_autoadd_setting_value" :> Wraps("setting_value")
    @@ "box_autoadd_settings_ui" :> Wraps("settings_ui")
    @@ "box_autoadd_source" :> Wraps("source") @@ "box_autoadd_stack_fit" :> Wraps("stack_fit")
    @@ "box_autoadd_text_style" :> Wraps("text_style")
    @@ "box_autoadd_u_32" :> Wraps("u_32")
    @@ "box_autoadd_wrap_alignment" :> Wraps("wrap_alignment")
    @@ "box_custom_ui" :> Wraps("custom_ui")
    @@ "box_entry_detailed" :> Wraps("entry_detailed")
    @@ "box_interaction" :> Wraps("interaction")
    @@ "button_type" :> Units(<< "Filled", "Ghost", "Elevated" >>)
    @@ "chapter" :> Fields(<< <<"title", "String">>, <<"start", "f_64">>, <<"end", "opt_box_autoadd_f_64">>,
          <<"kind", "opt_box_autoadd_chapter_kind">> >>)
    @@ "chapter_kind" :> Units(<< "Intro", "Outro", "Recap", "Filler", "Preview" >>)
    @@ "color_token" :> Units(<< "Primary", "OnPrimary", "PrimaryContainer", "OnPrimaryContainer", "Secondary",
          "OnSecondary", "Surface", "OnSurface", "SurfaceContainer",
          "SurfaceContainerHighest", "Error", "OnError", "Disabled", "Shadow" >>)
    @@ "container_type" :> Units(<< "Ghost", "Filled", "Outlined" >>)
    @@ "cross_axis_alignment" :> Units(<< "Start", "Center", "End", "Stretch", "Baseline" >>)

DartWritesCustomUIText == <<
    << "Text", << <<"text", "String">>, <<"style", "opt_box_autoadd_text_style">> >> >>,
    << "Image", << <<"image", "box_autoadd_link">>, <<"width", "opt_box_autoadd_i_32">>,
        <<"height", "opt_box_autoadd_i_32">> >> >>,
    << "Link", << <<"link", "String">>, <<"label", "opt_String">> >> >>,
    << "Timestamp", << <<"timestamp", "Chrono_Utc">>, <<"display", "timestamp_type">> >> >>,
    << "EntryCard", << <<"entry", "box_autoadd_entry">> >> >>,
    << "Card", << <<"image", "box_autoadd_link">>, <<"top", "box_custom_ui">>,
        <<"bottom", "box_custom_ui">>, <<"onClick", "opt_box_interaction">> >> >>,
    << "Spinner", << >> >>,
    << "Feed", << <<"handler", "String">>, <<"data", "String">> >> >>,
    << "Button", << <<"label", "String">>, <<"onClick", "opt_box_interaction">>,
        <<"buttonType", "opt_box_autoadd_button_type">>,
        <<"color", "opt_box_autoadd_color_token">> >> >>,
    << "InlineSetting", << <<"settingId", "String">>, <<"settingKind", "setting_kind">>,
        <<"onCommit", "opt_box_interaction">> >> >>,
    << "Slot", << <<"handler", "String">>, <<"child", "box_custom_ui">>,
        <<"staticData", "String">>, <<"subscriptions", "list_subscription">> >> >>,
    << "Column", << <<"children", "list_custom_ui">>,
        <<"mainAxisAlignment", "opt_box_autoadd_main_axis_alignment">>,
        <<"crossAxisAlignment", "opt_box_autoadd_cross_axis_alignment">>,
        <<"mainAxisSize", "opt_box_autoadd_main_axis_size">>, <<"scrollable", "bool">> >> >>,
    << "Row", << <<"children", "list_custom_ui">>,
        <<"mainAxisAlignment", "opt_box_autoadd_main_axis_alignment">>,
        <<"crossAxisAlignment", "opt_box_autoadd_cross_axis_alignment">>,
        <<"mainAxisSize", "opt_box_autoadd_main_axis_size">>, <<"scrollable", "bool">> >> >>,
    << "TextInput", << <<"onChange", "opt_box_interaction">>,
        <<"debounceMs", "opt_box_autoadd_i_32">>, <<"initial", "opt_String">>,
        <<"onCommit", "opt_box_interaction">> >> >>,
    << "Padding", << <<"padding", "box_autoadd_edge_insets">>,
        <<"child", "box_custom_ui">> >> >> >>

DartWritesCustomUIContainer == <<
    << "Container", << <<"child", "box_custom_ui">>,
        <<"containerType", "opt_box_autoadd_container_type">>,
        <<"color", "opt_box_autoadd_color_token">>,
        <<"borderColor", "opt_box_autoadd_color_token">>,
        <<"padding", "opt_box_autoadd_edge_insets">>, <<"width", "opt_box_autoadd_f_32">>,
        <<"height", "opt_box_autoadd_f_32">>, <<"alignment", "opt_box_autoadd_alignment">>,
        <<"emphasized", "opt_box_autoadd_bool">> >> >>,
    << "Clickable", << <<"child", "box_custom_ui">>, <<"onClick", "opt_box_interaction">>,
        <<"onLongClick", "opt_box_interaction">> >> >>,
    << "Expanded", << <<"child", "box_custom_ui">>, <<"flex", "i_32">> >> >>,
    << "SizedBox", << <<"width", "opt_box_autoadd_f_32">>,
        <<"height", "opt_box_autoadd_f_32">>, <<"child", "opt_box_custom_ui">> >> >>,
    << "Spacer", << <<"flex", "i_32">> >> >>,
    << "Wrap", << <<"children", "list_custom_ui">>, <<"spacing", "opt_box_autoadd_f_32">>,
        <<"runSpacing", "opt_box_autoadd_f_32">>,
        <<"alignment", "opt_box_autoadd_wrap_alignment">> >> >>,
    << "Center", << <<"child", "box_custom_ui">> >> >>,
    << "Align", << <<"alignment", "alignment">>, <<"child", "box_custom_ui">> >> >>,
    << "Stack", << <<"children", "list_custom_ui">>,
        <<"alignment", "opt_box_autoadd_alignment">>,
        <<"fit", "opt_box_autoadd_stack_fit">> >> >>,
    << "Divider", << >> >>,
    << "ListTile", << <<"leading", "opt_box_custom_ui">>, <<"title", "opt_box_custom_ui">>,
        <<"subtitle", "opt_box_custom_ui">>, <<"trailing", "opt_box_custom_ui">>,
        <<"onClick", "opt_box_interaction">>, <<"onLongClick", "opt_box_interaction">> >> >>,
    << "Badge", << <<"child", "box_custom_ui">>,
        <<"color", "opt_box_autoadd_color_token">> >> >>,
    << "FoldableText", << <<"text", "String">>, <<"maxLines", "i_32">>,
        <<"style", "opt_box_autoadd_text_style">>, <<"animate", "bool">> >> >>,
    << "StarDisplay", << <<"fill", "f_32">>, <<"maxStars", "i_32">> >> >>,
    << "Dropdown", << <<"items", "list_dropdown_item">>, <<"initialValue", "opt_String">>,
        <<"onChange", "opt_box_interaction">> >> >> >>

DartWritesCustomUI == "custom_ui" :> OneOf(DartWritesCustomUIText \o DartWritesCustomUIContainer)

DartWritesDropdownItem ==
       "dropdown_item" :> Fields(<< <<"value", "String">>, <<"label", "String">> >>)
    @@ "dropdown_option" :> Fields(<< <<"label", "String">>, <<"value", "String">> >>)
    @@ "edge_insets" :> Fields(<< <<"left", "opt_box_autoadd_f_32">>, <<"top", "opt_box_autoadd_f_32">>,
          <<"right", "opt_box_autoadd_f_32">>, <<"bottom", "opt_box_autoadd_f_32">> >>)
    @@ "entry" :> Fields(<< <<"id", "entry_id">>, <<"url", "String">>, <<"title", "String">>,
          <<"mediaType", "media_type">>, <<"cover", "opt_box_autoadd_link">>,
          <<"author", "opt_list_String">>, <<"rating", "opt_box_autoadd_f_32">>,
          <<"views", "opt_box_autoadd_f_32">>, <<"length", "opt_box_autoadd_i_32">> >>)
    @@ "entry_activity" :> OneOf(<<
        << "EpisodeActivity", << <<"progress", "i_32">> >> >> >>)
    @@ "entry_detailed" :> Fields(<< <<"id", "entry_id">>, <<"url", "String">>, <<"titles", "list_String">>,
          <<"author", "opt_list_String">>, <<"ui", "opt_box_autoadd_custom_ui">>,
          <<"meta", "opt_Map_String_String_None">>, <<"mediaType", "media_type">>,
          <<"status", "release_status">>, <<"description", "String">>,
          <<"language", "String">>, <<"cover", "opt_box_autoadd_link">>,
          <<"poster", "opt_box_autoadd_link">>, <<"episodes", "list_episode">>,
          <<"genres", "opt_list_String">>, <<"rating", "opt_box_autoadd_f_32">>,
          <<"views", "opt_box_autoadd_f_32">>, <<"length", "opt_box_autoadd_i_32">> >>)
    @@ "entry_detailed_result" :> Fields(<< <<"entry", "entry_detailed">>,
          <<"settings", "Map_String_setting_None">> >>)
    @@ "entry_id" :> Fields(<< <<"uid", "String">>, <<"iddata", "opt_String">> >>)
    @@ "entry_list" :> Fields(<< <<"hasnext", "opt_box_autoadd_bool">>, <<"length", "opt_box_autoadd_i_32">>,
          <<"content", "list_entry">> >>)
    @@ "episode" :> Fields(<< <<"id", "episode_id">>, <<"name", "String">>, <<"description", "opt_String">>,
          <<"url", "String">>, <<"cover", "opt_box_autoadd_link">>,
          <<"timestamp", "opt_box_autoadd_Chrono_Utc">>,
          <<"announced", "opt_box_autoadd_bool">> >>)
    @@ "episode_id" :> Fields(<< <<"uid", "String">>, <<"iddata", "opt_String">> >>)
    @@ "event_data" :> OneOf(<<
        << "LoadSlot", << <<"handler", "String">>, <<"staticData", "String">>,
            <<"values", "Map_String_slot_value_None">> >> >>,
        << "LoadPage", << <<"handler", "String">>, <<"data", "String">>,
            <<"page", "i_32">> >> >>,
        << "Invoke", << <<"handler", "String">>, <<"payload", "String">> >> >> >>)

DartWritesEventResult ==
       "event_result" :> OneOf(<<
        << "SlotContent", << <<"customui", "box_autoadd_custom_ui">> >> >>,
        << "FeedPage", << <<"items", "list_custom_ui">>, <<"hasMore", "bool">> >> >> >>)
    @@ "extension_data" :> Fields(<< <<"id", "String">>, <<"name", "String">>, <<"url", "String">>,
          <<"icon", "String">>, <<"desc", "opt_String">>, <<"author", "list_String">>,
          <<"tags", "list_String">>, <<"lang", "list_String">>, <<"nsfw", "bool">>,
          <<"mediaType", "Set_media_type_None">>,
          <<"extensionType", "Set_extension_type_None">>, <<"repo", "opt_String">>,
          <<"version", "String">>, <<"license", "String">>, <<"compatible", "bool">>,
          <<"permissions", "opt_list_permission">> >>)
    @@ "extension_kind" :> Units(<< "EntryProvider", "SourceProcessor", "EntryProcessor",
          "UrlHandler" >>)
    @@ "extension_manager_data" :> Fields(<< <<"name", "String">>, <<"icon", "opt_String">>, <<"repo", "opt_String">>,
          <<"apiVersion", "u_32">> >>)
    @@ "extension_repo" :> Fields(<< <<"remoteId", "String">>, <<"name", "String">>, <<"description", "String">>,
          <<"url", "String">> >>)
    @@ "extension_type" :> OneOf(<<
        << "EntryProvider", << <<"hasSearch", "bool">> >> >>,
        << "SourceProcessor", << <<"sourcetypes", "Set_source_type_None">>,
            <<"opentype", "Set_source_open_type_None">> >> >>,
        << "EntryProcessor", << <<"triggerMapEntry", "bool">>,
            <<"triggerOnEntryActivity", "bool">> >> >>,
        << "URLHandler", << <<"urlPatterns", "list_String">> >> >> >>)
    @@ "f_32" :> Plain("f32") @@ "f_64" :> Plain("f64") @@ "i_32" :> Plain("i32")
    @@ "i_64" :> Plain("64 bits")
    @@ "image_list_audio" :> Fields(<< <<"link", "link">>, <<"from", "i_32">>, <<"to", "i_32">> >>)
    @@ "interaction" :> OneOf(<<
        << "Invoke", << <<"handler", "String">>, <<"payload", "String">> >> >>,
        << "WriteKey", << <<"key", "String">>, <<"value", "String">> >> >> >>)
    @@ "isize" :> Plain("64 bits")
    @@ "link" :> Fields(<< <<"url", "String">>, <<"header", "opt_Map_String_String_None">> >>)

DartWritesListAutoOwnedProxyExtension ==
       "list_Auto_Owned_ProxyExtension" :> ListOf("Auto_Owned_ProxyExtension")
    @@ "list_String" :> ListOf("String") @@ "list_account" :> ListOf("account")
    @@ "list_chapter" :> ListOf("chapter") @@ "list_custom_ui" :> ListOf("custom_ui")
    @@ "list_dropdown_item" :> ListOf("dropdown_item")
    @@ "list_dropdown_option" :> ListOf("dropdown_option")
    @@ "list_entry" :> ListOf("entry") @@ "list_episode" :> ListOf("episode")
    @@ "list_extension_kind" :> ListOf("extension_kind")
    @@ "list_extension_type" :> ListOf("extension_type")
    @@ "list_image_list_audio" :> ListOf("image_list_audio")
    @@ "list_link" :> ListOf("link") @@ "list_media_type" :> ListOf("media_type")
    @@ "list_mixed_content" :> ListOf("mixed_content")

DartWritesListParagraph ==
       "list_paragraph" :> ListOf("paragraph") @@ "list_permission" :> ListOf("permission")
    @@ "list_popup_action" :> ListOf("popup_action") @@ "list_prim_u_8_strict" :> ListOf("u_8")
    @@ "list_record_string_list_string" :> ListOf("record_string_list_string")
    @@ "list_record_string_setting" :> ListOf("record_string_setting")
    @@ "list_record_string_slot_value" :> ListOf("record_string_slot_value")
    @@ "list_record_string_string" :> ListOf("record_string_string")
    @@ "list_remote_extension" :> ListOf("remote_extension")
    @@ "list_row" :> ListOf("row")
    @@ "list_source_open_type" :> ListOf("source_open_type")
    @@ "list_source_type" :> ListOf("source_type")
    @@ "list_stream_source" :> ListOf("stream_source")
    @@ "list_subscription" :> ListOf("subscription") @@ "list_subtitles" :> ListOf("subtitles")

DartWritesMainAxisAlignment ==
       "main_axis_alignment" :> Units(<< "Start", "Center", "End", "SpaceBetween", "SpaceAround",
          "SpaceEvenly" >>)
    @@ "main_axis_size" :> Units(<< "Min", "Max" >>)
    @@ "media_type" :> Units(<< "Video", "Comic", "Audio", "Book", "Unknown" >>)
    @@ "mixed_content" :> OneOf(<<
        << "Text", << <<"content", "String">>,
            <<"style", "opt_box_autoadd_text_style">> >> >>,
        << "CustomUI", << <<"ui", "box_custom_ui">> >> >>,
        << "Table", << <<"columns", "list_row">> >> >> >>)
    @@ "opt_Map_String_String_None" :> Maybe("Map_String_String_None")
    @@ "opt_String" :> Maybe("String")
    @@ "opt_box_autoadd_Auto_Owned_CancelToken" :> Maybe("box_autoadd_Auto_Owned_CancelToken")
    @@ "opt_box_autoadd_Chrono_Utc" :> Maybe("box_autoadd_Chrono_Utc")
    @@ "opt_box_autoadd_account" :> Maybe("box_autoadd_account")
    @@ "opt_box_autoadd_alignment" :> Maybe("box_autoadd_alignment")
    @@ "opt_box_autoadd_auth_creds" :> Maybe("box_autoadd_auth_creds")
    @@ "opt_box_autoadd_bool" :> Maybe("box_autoadd_bool")
    @@ "opt_box_autoadd_button_type" :> Maybe("box_autoadd_button_type")
    @@ "opt_box_autoadd_chapter_kind" :> Maybe("box_autoadd_chapter_kind")

DartWritesOptBoxAutoaddColorToken ==
       "opt_box_autoadd_color_token" :> Maybe("box_autoadd_color_token")
    @@ "opt_box_autoadd_container_type" :> Maybe("box_autoadd_container_type")
    @@ "opt_box_autoadd_cross_axis_alignment" :> Maybe("box_autoadd_cross_axis_alignment")
    @@ "opt_box_autoadd_custom_ui" :> Maybe("box_autoadd_custom_ui")
    @@ "opt_box_autoadd_edge_insets" :> Maybe("box_autoadd_edge_insets")
    @@ "opt_box_autoadd_event_result" :> Maybe("box_autoadd_event_result")
    @@ "opt_box_autoadd_f_32" :> Maybe("box_autoadd_f_32")
    @@ "opt_box_autoadd_f_64" :> Maybe("box_autoadd_f_64")
    @@ "opt_box_autoadd_i_32" :> Maybe("box_autoadd_i_32")
    @@ "opt_box_autoadd_link" :> Maybe("box_autoadd_link")
    @@ "opt_box_autoadd_main_axis_alignment" :> Maybe("box_autoadd_main_axis_alignment")
    @@ "opt_box_autoadd_main_axis_size" :> Maybe("box_autoadd_main_axis_size")
    @@ "opt_box_autoadd_settings_ui" :> Maybe("box_autoadd_settings_ui")
    @@ "opt_box_autoadd_stack_fit" :> Maybe("box_autoadd_stack_fit")

DartWritesOptBoxAutoaddTextStyle ==
       "opt_box_autoadd_text_style" :> Maybe("box_autoadd_text_style")
    @@ "opt_box_autoadd_u_32" :> Maybe("box_autoadd_u_32")
    @@ "opt_box_autoadd_wrap_alignment" :> Maybe("box_autoadd_wrap_alignment")
    @@ "opt_box_custom_ui" :> Maybe("box_custom_ui")
    @@ "opt_box_interaction" :> Maybe("box_interaction")
    @@ "opt_list_String" :> Maybe("list_String") @@ "opt_list_chapter" :> Maybe("list_chapter")
    @@ "opt_list_image_list_audio" :> Maybe("list_image_list_audio")
    @@ "opt_list_permission" :> Maybe("list_permission")
    @@ "paragraph" :> OneOf(<<
        << "Text", << <<"content", "String">>,
            <<"style", "opt_box_autoadd_text_style">> >> >>,
        << "Mixed", << <<"content", "list_mixed_content">> >> >>,
        << "CustomUI", << <<"ui", "box_custom_ui">> >> >>,
        << "Table", << <<"columns", "list_row">> >> >> >>)
    @@ "permission" :> OneOf(<<
        << "Storage", << <<"path", "String">>, <<"write", "bool">> >> >>,
        << "Network", << <<"domains", "list_String">> >> >>,
        << "ActionPopup", << >> >>,
        << "ArbitraryNetwork", << >> >> >>)
    @@ "popup_action" :> Fields(<< <<"label", "String">>, <<"onclick", "box_action">> >>)
    @@ "record_string_list_string" :> Fields(<< <<"field0", "String">>,
          <<"field1", "list_String">> >>)

DartWritesRecordStringSetting ==
       "record_string_setting" :> Fields(<< <<"field0", "String">>, <<"field1", "setting">> >>)
    @@ "record_string_slot_value" :> Fields(<< <<"field0", "String">>,
          <<"field1", "slot_value">> >>)
    @@ "record_string_string" :> Fields(<< <<"field0", "String">>, <<"field1", "String">> >>)
    @@ "release_status" :> Units(<< "Releasing", "Complete", "Unknown" >>)
    @@ "remote_extension" :> Fields(<< <<"remoteId", "String">>, <<"id", "String">>, <<"name", "String">>,
          <<"url", "String">>, <<"cover", "opt_box_autoadd_link">>, <<"version", "String">>,
          <<"compatible", "bool">>, <<"permissions", "opt_list_permission">>,
          <<"authors", "list_String">>, <<"lang", "list_String">>,
          <<"tags", "list_String">>, <<"nsfw", "bool">>,
          <<"mediaType", "Set_media_type_None">>,
          <<"extensionKinds", "list_extension_kind">> >>)
    @@ "remote_extension_result" :> Fields(<< <<"content", "list_remote_extension">>, <<"hasnext", "opt_box_autoadd_bool">>,
          <<"length", "opt_box_autoadd_i_32">> >>)
    @@ "row" :> Fields(<< <<"cells", "list_paragraph">> >>)
    @@ "setting" :> Fields(<< <<"label", "String">>, <<"value", "setting_value">>,
          <<"default", "setting_value">>, <<"visible", "bool">>,
          <<"ui", "opt_box_autoadd_settings_ui">> >>)
    @@ "setting_kind" :> Units(<< "Extension", "Search" >>)
    @@ "setting_value" :> OneOf(<<
        << "String", << <<"data", "String">> >> >>,
        << "Number", << <<"data", "f_32">> >> >>,
        << "Boolean", << <<"data", "bool">> >> >>,
        << "StringList", << <<"data", "list_String">> >> >> >>)
    @@ "settings_ui" :> OneOf(<<
        << "CheckBox", << >> >>,
        << "Slider", << <<"min", "f_64">>, <<"max", "f_64">>, <<"step", "i_32">> >> >>,
        << "Dropdown", << <<"options", "list_dropdown_option">> >> >>,
        << "MultiDropdown", << <<"options", "list_dropdown_option">> >> >>,
        << "Directory", << <<"write", "bool">> >> >>,
        << "CustomUI", << <<"ui", "box_autoadd_custom_ui">> >> >> >>)
    @@ "slot_value" :> OneOf(<<
        << "Setting", << <<"value", "box_autoadd_setting_value">> >> >>,
        << "Store", << <<"key", "String">>, <<"value", "String">> >> >> >>)

DartWritesSource ==
       "source" :> OneOf(<<
        << "Epub", << <<"link", "box_autoadd_link">> >> >>,
        << "Pdf", << <<"link", "box_autoadd_link">> >> >>,
        << "Imagelist", << <<"links", "list_link">>,
            <<"audio", "opt_list_image_list_audio">> >> >>,
        << "Video", << <<"sources", "list_stream_source">>, <<"sub", "list_subtitles">>,
            <<"chapters", "opt_list_chapter">> >> >>,
        << "Audio", << <<"sources", "list_stream_source">>,
            <<"chapters", "opt_list_chapter">> >> >>,
        << "Paragraphlist", << <<"paragraphs", "list_paragraph">>,
            <<"audio", "opt_list_image_list_audio">> >> >> >>)
    @@ "source_open_type" :> Units(<< "Download", "Stream" >>)
    @@ "source_result" :> Fields(<< <<"source", "source">>,
          <<"settings", "Map_String_setting_None">> >>)
    @@ "source_type" :> Units(<< "Epub", "Pdf", "Imagelist", "Video", "Audio", "Paragraphlist" >>)
    @@ "stack_fit" :> Units(<< "Loose", "Expand", "Passthrough" >>)
    @@ "storage_usage" :> Fields(<< <<"cache", "f_64">>, <<"extensionBytes", "f_64">>,
          <<"data", "f_64">> >>)
    @@ "stream_source" :> Fields(<< <<"name", "String">>, <<"lang", "String">>,
          <<"url", "link">> >>)
    @@ "subscription" :> Fields(<< <<"source", "subscription_source">>, <<"key", "String">>,
          <<"stateKey", "String">> >>)
    @@ "subscription_source" :> OneOf(<<
        << "Store", << >> >>,
        << "Setting", << <<"kind", "setting_kind">> >> >>,
        << "EntrySetting", << >> >> >>)
    @@ "subtitles" :> Fields(<< <<"title", "String">>, <<"lang", "String">>, <<"url", "link">> >>)
    @@ "text_style" :> Fields(<< <<"bold", "opt_box_autoadd_bool">>, <<"italic", "opt_box_autoadd_bool">>,
          <<"underline", "opt_box_autoadd_bool">>,
          <<"strikethrough", "opt_box_autoadd_bool">>, <<"code", "opt_box_autoadd_bool">>,
          <<"link", "opt_String">>, <<"fontSize", "opt_box_autoadd_i_32">> >>)
    @@ "timestamp_type" :> Units(<< "Relative", "Absolute" >>)
    @@ "toast_kind" :> Units(<< "Info", "Success", "Warning", "Error" >>)
    @@ "u_32" :> Plain("u32") @@ "u_8" :> Plain("u8") @@ "unit" :> Fields(<< >>)

DartWritesUsize ==
       "usize" :> Plain("64 bits")
    @@ "wrap_alignment" :> Units(<< "Start", "Center", "End", "SpaceBetween", "SpaceAround",
          "SpaceEvenly" >>)

(***************************************************************************)
(* The whole tables.                                                       *)
(***************************************************************************)
DartReads ==
    DartReadsAnyhowException @@ DartReadsExtensionClient @@ DartReadsAuthCreds
    @@ DartReadsBoxAutoaddEdgeInsets @@ DartReadsBoxCustomUi @@ DartReadsCustomUI
    @@ DartReadsDropdownItem @@ DartReadsEpisodeId @@ DartReadsExtensionType
    @@ DartReadsListCustomUi @@ DartReadsListPermission @@ DartReadsListSubscription
    @@ DartReadsOptBoxAutoaddBool @@ DartReadsOptBoxAutoaddF64
    @@ DartReadsOptBoxAutoaddI32 @@ DartReadsOptListImageListAudio
    @@ DartReadsRemoteExtension @@ DartReadsSource @@ DartReadsToastKind

DartWrites ==
    DartWritesAnyhowException @@ DartWritesFnEntryIdStringSettingValueUnit
    @@ DartWritesSetSourceTypeNone @@ DartWritesBoxAutoaddAccount
    @@ DartWritesBoxAutoaddLink @@ DartWritesCustomUI @@ DartWritesDropdownItem
    @@ DartWritesEventResult @@ DartWritesListAutoOwnedProxyExtension
    @@ DartWritesListParagraph @@ DartWritesMainAxisAlignment
    @@ DartWritesOptBoxAutoaddColorToken @@ DartWritesOptBoxAutoaddTextStyle
    @@ DartWritesRecordStringSetting @@ DartWritesSource @@ DartWritesUsize
=============================================================================
